---- MODULE Spec2Model ----
(***************************************************************************)
(* Model of the rate-limited request scheduler (RequestQueue) and of the   *)
(* analysis run built on it (handleStart / generateSummary).               *)
(*                                                                         *)
(* Time is in milliseconds.  The code reads the clock only as              *)
(*     wait = max(0, minDelay - (Date.now() - lastRequestTime))            *)
(* with minDelay = 60000 / rpm, so every comparison is made on the         *)
(* product with rpm, which keeps the arithmetic in the integers:           *)
(*     wait = 0   <=>   (now - lastRequestTime) * rpm >= 60000.            *)
(***************************************************************************)
EXTENDS Integers, Sequences, FiniteSets, Bags, TLC

\* ------------------------------------------------------------------ bounds

\* Tasks submitted to a free-standing scheduler.
MaxTasks == 4

\* Tasks submitted where the eventual delivery of every task is checked.
MaxLiveTasks == 3

\* Target rows of an analysis run.
MaxRows == 2

\* "const BATCH_SIZE = 25" in generateSummary.  The run takes the batched
\* path when more than BATCH_SIZE per-row results are usable; the threshold
\* is scaled down so that MaxRows rows reach both paths.
BATCH_SIZE == 1

\* The clock advances in steps of TickMs milliseconds.
TickMs == 3000

\* Date.now() when the scheduler is constructed: any instant at least one
\* minute after the epoch, so that the initial lastRequestTime = 0 never
\* throttles the first dispatch.
StartTime == 60000

\* Per-row results handed to generateSummary where its slicing into batches
\* of the source's size is checked.
MaxUsable == 60

\* Records held by the data worker.
MaxRecords == 3

\* 'parse' messages handled by one worker.
MaxLoads == 2

\* Entries of a filter specification.
MaxFilterFields == 2

\* Pages and page sizes requested.
MaxPage == 3

MaxRowsPerPage == 3

\* The requests-per-minute settings explored (minDelay 6000 ms and 3000 ms).
RpmValues == {10, 20}

\* The page size of the table, "rowsPerPage: 100" in App, scaled so that the
\* files explored fill more than one page.
RowsPerPage == 2

\* Messages under way between the application and its worker while the
\* user acts.
MaxPending == 2

\* ------------------------------------------------------- program constants

\* "60000 / rpm": the milliseconds in the minute the rate is given for.
MinuteMs == 60000

\* "Math.min(6, ...)": the fixed upper bound of the concurrency cap.
ConcurrencyCeiling == 6

\* "const BATCH_SIZE = 25", unscaled.
FullBatchSize == 25

\* ------------------------------------------------------------------- state

VARIABLES
    rq,        \* the RequestQueue object: queue, activeCount, maxConcurrency,
               \* rpm (standing for minDelay = 60000 / rpm), lastRequestTime
    timers,    \* bag of pending setTimeout(() => this.process(), wait)
               \* callbacks, each held as its due time multiplied by rpm
    now,       \* Date.now()
    status,    \* per submitted task, in submission order:
               \* "pending" (in queue), "running" (dispatched, fn() not yet
               \* finished), "done" (finished), "dropped" (removed by clear)
    settled,   \* per submitted task, the state of the promise add returned:
               \* [state |-> "none" | "resolved" | "rejected", of |-> task]
    starts,    \* history: the dispatches so far, in order, each
               \* [task, at (the clock value stored in lastRequestTime)]
    triggers,  \* history: the callers of process() ("add", "complete",
               \* "timer") that dispatched a task other than the first
    run,       \* the analysis run (handleStart, generateSummary): pc, mode,
               \* nRows, tempResults, batches, batchResults, finalInput,
               \* finalAt (clock value of the final call, -1 before it),
               \* summary
    worker,    \* the module state of the data worker: rawDataStore,
               \* filterIndexes, aggregators, headers, customMetricKeys,
               \* filterOptions, highCardinalityFields
    parsing,   \* the Papa.parse call in progress: on, its rowIndex, and
               \* (history) loads, the 'parse' messages handled so far
    posted,    \* the last message the worker posted to the application
    app,       \* the state of the App component: file, isLoading, error,
               \* summaryStats, filters, pagination, sortConfig,
               \* filteredIndexes, activeView, analysisData
    messages   \* the messages under way: toWorker (worker.postMessage) and
               \* toApp (self.postMessage), each in the order sent

schedulerVars == <<rq, timers, now, status, settled, starts, triggers, run>>

workerVars == <<worker, parsing, posted>>

appVars == <<app, messages>>

dataVars == <<workerVars, appVars>>

vars == <<rq, timers, now, status, settled, starts, triggers, run,
          worker, parsing, posted, app, messages>>

\* ----------------------------------------------------------------- helpers

Max(a, b) == IF a >= b THEN a ELSE b

Min(a, b) == IF a <= b THEN a ELSE b

\* Math.ceil(a / b) for a >= 0, b > 0.
CeilDiv(a, b) == (a + b - 1) \div b

Range(s) == {s[i] : i \in 1..Len(s)}

\* ------------------------------------------------ data worker: fresh state

\* undefined and null, which no cell of a file holds.
Undefined == "(undefined)"

Null == "(null)"

\* A JavaScript object with no own property.
EmptyObject == [k \in {} |-> k]

\* "let rawDataStore = []; let filterIndexes = {}; let aggregators = {...};
\*  let headers = []; let customMetricKeys = new Set();
\*  let filterOptions = {}; let highCardinalityFields = [];"
NewWorker ==
    [rawDataStore          |-> <<>>,
     filterIndexes         |-> EmptyObject,
     aggregators           |-> [totalContained |-> 0,
                                totalHandleTimeSeconds |-> 0,
                                validHandleTimeCount |-> 0,
                                totalRows |-> 0],
     headers               |-> <<>>,
     customMetricKeys      |-> <<>>,
     filterOptions         |-> EmptyObject,
     highCardinalityFields |-> <<>>]

NoParse == [on |-> FALSE, rowIndex |-> 0, loads |-> 0, failed |-> FALSE]

NoMessage == [type |-> "none"]

\* A piece of state that is null or an object: no element for null, the
\* object as the only element otherwise.
NoObject == <<>>

Object(value) == <<value>>

\* The useState initial values of App.
NewApp ==
    [file            |-> FALSE,
     isLoading       |-> FALSE,
     error           |-> "",
     summaryStats    |-> NoObject,
     filters         |-> <<>>,
     pagination      |-> [currentPage |-> 1, rowsPerPage |-> RowsPerPage],
     sortConfig      |-> [key |-> Null, direction |-> "ascending"],
     filteredIndexes |-> <<>>,
     activeView      |-> "dashboard",
     analysisData    |-> NoObject]

NoMessages == [toWorker |-> <<>>, toApp |-> <<>>]

\* A page that has just been loaded: a new worker, nothing parsed, nothing
\* posted, the application in its initial state.
WorkerFresh ==
    /\ worker = NewWorker
    /\ parsing = NoParse
    /\ posted = NoMessage
    /\ app = NewApp
    /\ messages = NoMessages

\* ----------------------------------------------------- RequestQueue object

\* constructor: this.maxConcurrency = Math.min(6, Math.ceil(rpm / 10) + 1)
MaxConcurrencyOf(r) == Min(ConcurrencyCeiling, CeilDiv(r, 10) + 1)

\* constructor and field initialisers.
NewRequestQueue(r) ==
    [queue           |-> <<>>,
     activeCount     |-> 0,
     maxConcurrency  |-> MaxConcurrencyOf(r),
     rpm             |-> r,
     lastRequestTime |-> 0]

\* process(): wait = Math.max(0, this.minDelay - timeSinceLast), times the
\* magnitude of rpm.  The constructor accepts any number: with rpm = 0
\* minDelay and wait are Infinity (any positive value stands for it), and
\* with rpm < 0 minDelay is negative.
WaitTimesRpm(q, t) ==
    IF q.rpm > 0 THEN Max(0, MinuteMs - (t - q.lastRequestTime) * q.rpm)
    ELSE IF q.rpm = 0 THEN MinuteMs
    ELSE Max(0, (t - q.lastRequestTime) * q.rpm - MinuteMs)

\* The delay of "setTimeout(() => this.process(), wait)", times rpm: wait,
\* except that setTimeout converts an infinite delay to 0.
TimeoutTimesRpm(q, t) == IF q.rpm = 0 THEN 0 ELSE WaitTimesRpm(q, t)

\* A dispatch that ignores the rate limit.
CanDispatchIgnoringWait(q, t) == q.activeCount < q.maxConcurrency

\* process(): "this.activeCount < this.maxConcurrency && wait === 0"
CanDispatch(q, t) ==
    q.activeCount < q.maxConcurrency /\ WaitTimesRpm(q, t) = 0

\* A throttled process() that schedules no re-check.
MustDeferNever(q, t) == FALSE

\* process(): "else if (this.activeCount < this.maxConcurrency)"
MustDefer(q, t) ==
    ~CanDispatch(q, t) /\ q.activeCount < q.maxConcurrency

\* A queue that hands out its newest entry.
ShiftLast(qu) ==
    [fn |-> qu[Len(qu)], rest |-> SubSeq(qu, 1, Len(qu) - 1)]

\* this.queue.shift()
Shift(qu) == [fn |-> Head(qu), rest |-> Tail(qu)]

\* process(), run to its end at clock value t.  m = [rq, timers, started]:
\* started collects the tasks whose fn() this call began.
RECURSIVE Process(_, _)
Process(m, t) ==
    IF Len(m.rq.queue) = 0 THEN m
    ELSE IF CanDispatch(m.rq, t) THEN
        LET sh == Shift(m.rq.queue) IN
        Process([m EXCEPT !.rq.queue = sh.rest,
                          !.rq.activeCount = @ + 1,
                          !.rq.lastRequestTime = t,
                          !.started = Append(@, sh.fn)], t)
    ELSE IF MustDefer(m.rq, t) THEN
        [m EXCEPT !.timers =
            @ (+) SetToBag({t * m.rq.rpm + TimeoutTimesRpm(m.rq, t)})]
    ELSE m

\* add(fn): push the wrapper, then process().
AddTo(m, task, t) ==
    Process([m EXCEPT !.rq.queue = Append(@, task)], t)

\* The wrapper's finally block: this.activeCount--, then process().
FinallyOf(m, t) ==
    Process([m EXCEPT !.rq.activeCount = @ - 1], t)

\* A clear() that leaves the queue as it is.
ClearedKeepQueue(q) == [q EXCEPT !.activeCount = 0]

\* A clear() that leaves the counter as it is.
ClearedKeepCount(q) == [q EXCEPT !.queue = <<>>]

\* clear(): this.queue = []; this.activeCount = 0.
ClearedFields(q) == [q EXCEPT !.queue = <<>>, !.activeCount = 0]

\* ---------------------------------------------------- scheduler operations

\* The effect of a call that ran process(): the tasks it dispatched are
\* running, and each dispatch is logged with the clock value it stored.
Dispatched(st, m) ==
    [i \in 1..Len(st) |-> IF i \in Range(m.started) THEN "running" ELSE st[i]]

Logged(m, t) ==
    starts \o [i \in 1..Len(m.started) |-> [task |-> m.started[i], at |-> t]]

Triggered(m, op) ==
    IF Len(starts) + Len(m.started) >= 2 /\ Len(m.started) >= 1
    THEN triggers \cup {op} ELSE triggers

\* The scheduler as a call by op leaves it, st being the task states the
\* caller set before process() ran.
Enact(m, st, op) ==
    /\ rq' = m.rq
    /\ timers' = m.timers
    /\ status' = Dispatched(st, m)
    /\ starts' = Logged(m, now)
    /\ triggers' = Triggered(m, op)

Machine == [rq |-> rq, timers |-> timers, started |-> <<>>]

Unsettled == [state |-> "none", of |-> 0]

\* No analysis run: the scheduler is driven by its callers directly.
NoRun ==
    [pc |-> "off", mode |-> "standard", nRows |-> 0, tempResults |-> <<>>,
     batches |-> <<>>, batchResults |-> <<>>, finalInput |-> <<>>,
     finalAt |-> -1, summary |-> "null"]

\* handleStart awaits Promise.all(promises) while run.pc = "map", and
\* generateSummary awaits Promise.all(batchPromises) while it is "batches".
RowTasks == 1..run.nRows

BatchTasks == (run.nRows + 1)..(run.nRows + Len(run.batches))

\* An await that resumes once any one promise has settled.
AwaitAny(ts) == \E t \in ts : settled[t].state # "none"

\* await Promise.all(...): resumes when every promise is resolved, or as
\* soon as one is rejected.
AwaitAll(ts) ==
    \/ \A t \in ts : settled[t].state = "resolved"
    \/ \E t \in ts : settled[t].state = "rejected"

\* The continuation of an await whose promise has settled runs before the
\* clock advances, a timer callback runs or another response arrives.
Resumable ==
    \/ run.pc = "map" /\ AwaitAll(RowTasks)
    \/ run.pc = "batches" /\ AwaitAll(BatchTasks)

Init ==
    /\ \E r \in RpmValues : rq = NewRequestQueue(r)
    /\ timers = EmptyBag
    /\ now = StartTime
    /\ status = <<>>
    /\ settled = <<>>
    /\ starts = <<>>
    /\ triggers = {}
    /\ run = NoRun
    /\ WorkerFresh

\* queue.add(fn) by a caller, who submits at most n tasks.
Add(n) ==
    /\ Len(status) < n
    /\ Enact(AddTo(Machine, Len(status) + 1, now),
             Append(status, "pending"), "add")
    /\ settled' = Append(settled, Unsettled)
    /\ UNCHANGED <<now, run, dataVars>>

\* The tasks submitted to a free-standing scheduler alternate between one
\* whose fn() returns and one whose fn() throws.
Throws(task) == task % 2 = 0

\* "try { resolve(await fn()) } catch (e) { reject(e) }"
WrapperOutcome(throws) == IF throws THEN "rejected" ELSE "resolved"

\* fn() of a running task finishes: the wrapper resolves or rejects the
\* promise of its own add call, then runs its finally block.
Finish(task, throws) ==
    /\ task \in 1..Len(status)
    /\ status[task] = "running"
    /\ ~Resumable
    /\ Enact(FinallyOf(Machine, now), [status EXCEPT ![task] = "done"],
             "complete")
    /\ settled' = [settled EXCEPT
                      ![task] = [state |-> WrapperOutcome(throws), of |-> task]]
    /\ UNCHANGED <<now, dataVars>>

Complete(task) ==
    /\ Finish(task, Throws(task))
    /\ UNCHANGED run

\* A setTimeout callback whose delay has elapsed runs process().
TimerFire ==
    /\ ~Resumable
    /\ \E due \in BagToSet(timers) :
          /\ now * rq.rpm >= due
          /\ Enact(Process([Machine EXCEPT
                                !.timers = @ (-) SetToBag({due})], now),
                   status, "timer")
    /\ UNCHANGED <<now, settled, run, dataVars>>

\* Time passes.  Once wait = 0 every pending timer is due (a timer is set
\* for lastRequestTime + minDelay, and lastRequestTime never decreases) and
\* process() no longer reads how much more time has passed, so the clock is
\* advanced only while the rate limit is still in force; with rpm = 0 the
\* wait is infinite whatever the clock says.
Tick ==
    /\ ~Resumable
    /\ WaitTimesRpm(rq, now) > 0
    /\ rq.rpm # 0
    /\ now' = now + TickMs
    /\ UNCHANGED <<rq, timers, status, settled, starts, triggers, run,
                   dataVars>>

\* queue.clear() by a caller: the queued wrappers are discarded, the running
\* ones are not touched, the timers are not cancelled.
Clear ==
    /\ rq' = ClearedFields(rq)
    /\ status' = [i \in 1..Len(status) |->
                    IF i \in Range(rq.queue) THEN "dropped" ELSE status[i]]
    /\ UNCHANGED <<timers, now, settled, starts, triggers, run, dataVars>>

Next ==
    \/ Add(MaxTasks)
    \/ \E task \in 1..MaxTasks : Complete(task)
    \/ TimerFire
    \/ Tick
    \/ Clear

Spec == Init /\ [][Next]_vars

LiveNext ==
    \/ Add(MaxLiveTasks)
    \/ \E task \in 1..MaxLiveTasks : Complete(task)
    \/ TimerFire
    \/ Tick
    \/ Clear

\* Every dispatched task terminates, due timers fire, time passes.
FairSpec ==
    /\ Init /\ [][LiveNext]_vars
    /\ \A task \in 1..MaxLiveTasks : WF_vars(Complete(task))
    /\ WF_vars(TimerFire)
    /\ WF_vars(Tick)

\* ------------------------------------------------------------ analysis run

\* What gemini.generateContent does: it returns a text that safeJsonParse
\* accepts, returns a text that it does not, or throws.
Responses == {"json", "garbage", "threw"}

\* safeJsonParse(text): the parsed value, or null.
SafeJsonParse(text) == IF text = "json" THEN "parsed" ELSE "null"

\* The per-row task of handleStart: { row, insight, error }.
RowResult(row, resp) ==
    [row     |-> row,
     insight |-> IF resp = "threw" THEN "null" ELSE SafeJsonParse(resp),
     error   |-> IF resp = "threw" THEN "e.message"
                 ELSE IF SafeJsonParse(resp) = "null"
                      THEN "Invalid JSON response"
                      ELSE "null"]

\* results.filter(r => r.insight && !r.error)
ValidResults(results) ==
    SelectSeq(results, LAMBDA r : r.insight # "null" /\ r.error = "null")

\* A slicing that stops at the last full batch.
BatchesWithoutTail(results, size) ==
    [k \in 1..(Len(results) \div size) |->
        SubSeq(results, (k - 1) * size + 1, k * size)]

\* "for (let i = 0; i < validResults.length; i += BATCH_SIZE)
\*      batches.push(validResults.slice(i, i + BATCH_SIZE))"
Batches(results, size) ==
    [k \in 1..CeilDiv(Len(results), size) |->
        SubSeq(results, (k - 1) * size + 1, Min(k * size, Len(results)))]

\* The batch task of generateSummary returns the response text, or null
\* when the call throws.
BatchResult(resp) == IF resp = "threw" THEN "null" ELSE resp

\* A filter that keeps every batch whose call returned.
ReturnedBatches(results) ==
    SelectSeq([i \in 1..Len(results) |-> [from |-> "batch", id |-> i]],
              LAMBDA b : results[b.id] # "null")

\* batchResults.filter(r => r !== null && safeJsonParse(r)), as the batches
\* whose texts are joined into finalInputForSummary.
SuccessfulBatches(results) ==
    SelectSeq([i \in 1..Len(results) |-> [from |-> "batch", id |-> i]],
              LAMBDA b : results[b.id] # "null"
                         /\ SafeJsonParse(results[b.id]) # "null")

\* validResults.map(r => JSON.stringify(r.insight)).join(...), as the rows
\* whose insights are joined.
DirectInput(valid) ==
    [i \in 1..Len(valid) |-> [from |-> "row", id |-> valid[i].row]]

\* queue.add for the tasks first..last, one after the other.
RECURSIVE AddRange(_, _, _, _)
AddRange(m, first, last, t) ==
    IF first > last THEN m
    ELSE AddRange(AddTo(m, first, t), first + 1, last, t)

PipeInit ==
    /\ \E r \in RpmValues : rq = NewRequestQueue(r)
    /\ timers = EmptyBag
    /\ now = StartTime
    /\ status = <<>>
    /\ settled = <<>>
    /\ starts = <<>>
    /\ triggers = {}
    /\ run = [NoRun EXCEPT !.pc = "idle"]
    /\ WorkerFresh

\* handleStart up to its await: a new RequestQueue(rpm), and one queue.add
\* per target row.
HandleStart ==
    /\ run.pc = "idle"
    /\ \E n \in 1..MaxRows, md \in {"standard", "custom"} :
          /\ Enact(AddRange([Machine EXCEPT !.rq = NewRequestQueue(rq.rpm)],
                            1, n, now),
                   [i \in 1..n |-> "pending"], "add")
          /\ settled' = [i \in 1..n |-> Unsettled]
          /\ run' = [run EXCEPT !.pc = "map", !.mode = md, !.nRows = n]
    /\ UNCHANGED <<now, dataVars>>

\* A per-row task that lets the error of its call escape.
RowTaskRethrows(resp) == resp = "threw"

\* Whether the per-row task itself throws: the call and the parse are
\* inside "try { ... } catch (e) { error = e.message }", so it never does.
RowTaskThrows(resp) == FALSE

\* The call of a per-row task ends; the task records its result and
\* returns, whatever the call did.
CompleteRow ==
    \E task \in RowTasks, resp \in Responses :
        /\ Finish(task, RowTaskThrows(resp))
        /\ run' = [run EXCEPT
                      !.tempResults = Append(@, RowResult(task, resp))]

\* generateSummary up to its first await, run at clock value t on the
\* results the map phase collected, with batches of the given size.  Gives
\* the run and the machine.
GenerateSummaryWith(r, m, t, size) ==
    LET valid == ValidResults(r.tempResults)
        bs == Batches(valid, size)
    IN  IF Len(valid) = 0 THEN
            [run |-> [r EXCEPT !.pc = "done"], m |-> m]
        ELSE IF Len(valid) <= size THEN
            [run |-> [r EXCEPT !.pc = "final",
                               !.finalInput = DirectInput(valid),
                               !.finalAt = t],
             m |-> m]
        ELSE
            [run |-> [r EXCEPT !.pc = "batches",
                               !.batches = bs,
                               !.batchResults = [i \in 1..Len(bs) |-> "pending"]],
             m |-> AddRange(m, Len(status) + 1, Len(status) + Len(bs), t)]

GenerateSummary(r, m, t) == GenerateSummaryWith(r, m, t, BATCH_SIZE)

\* handleStart resumes after "await Promise.all(promises)": in standard
\* mode it calls generateSummary with the same queue; a rejection would go
\* to its catch block.
MapDone ==
    /\ run.pc = "map"
    /\ AwaitAll(RowTasks)
    /\ LET g == IF run.mode = "standard"
                   /\ \A t \in RowTasks : settled[t].state # "rejected"
                THEN GenerateSummary(run, Machine, now)
                ELSE [run |-> [run EXCEPT !.pc = "done"], m |-> Machine]
           added == Len(g.run.batches)
       IN /\ Enact(g.m, status \o [i \in 1..added |-> "pending"], "add")
          /\ settled' = settled \o [i \in 1..added |-> Unsettled]
          /\ run' = g.run
    /\ UNCHANGED <<now, dataVars>>

\* The call of a batch task ends; the task returns the text or null.
CompleteBatch ==
    \E task \in BatchTasks, resp \in Responses :
        /\ Finish(task, FALSE)
        /\ run' = [run EXCEPT
                      !.batchResults[task - run.nRows] = BatchResult(resp)]

\* generateSummary resumes after "await Promise.all(batchPromises)" and
\* makes the final call, gemini.generateContent(prompt, true).
BatchesDone ==
    /\ run.pc = "batches"
    /\ AwaitAll(BatchTasks)
    /\ run' = [run EXCEPT !.pc = "final",
                          !.finalInput = SuccessfulBatches(run.batchResults),
                          !.finalAt = now]
    /\ UNCHANGED <<rq, timers, now, status, settled, starts, triggers,
                   dataVars>>

\* The final call ends: setSummary(formatSummaryHtml(...)), or the catch
\* block's "Failed to generate summary".
FinalDone ==
    /\ run.pc = "final"
    /\ \E resp \in Responses :
          run' = [run EXCEPT
                    !.pc = "done",
                    !.summary = IF resp # "threw" /\ SafeJsonParse(resp) # "null"
                                THEN "html" ELSE "error"]
    /\ UNCHANGED <<rq, timers, now, status, settled, starts, triggers,
                   dataVars>>

PipeNext ==
    \/ HandleStart
    \/ CompleteRow
    \/ MapDone
    \/ CompleteBatch
    \/ BatchesDone
    \/ FinalDone
    \/ TimerFire
    \/ Tick

PipeSpec == PipeInit /\ [][PipeNext]_vars

\* ------------------------------------------- a run with an invalid rate

\* Settings that are no rate: zero (minDelay Infinity, cap 1), a negative
\* number above -10 (minDelay negative, cap 1) and one at or below -10
\* (cap 0 or less).  NaN, which no integer stands for, makes every
\* comparison of process() false, as a cap of 0 does.
InvalidRpms == {0, -5, -10}

ConfigInit ==
    /\ \E r \in InvalidRpms : rq = NewRequestQueue(r)
    /\ timers = EmptyBag
    /\ now = StartTime
    /\ status = <<>>
    /\ settled = <<>>
    /\ starts = <<>>
    /\ triggers = {}
    /\ run = [NoRun EXCEPT !.pc = "idle"]
    /\ WorkerFresh

\* The run of handleStart; the clock is left out, since with none of these
\* settings the wait depends on it.
ConfigNext ==
    \/ HandleStart
    \/ CompleteRow
    \/ MapDone
    \/ CompleteBatch
    \/ BatchesDone
    \/ FinalDone
    \/ TimerFire

ConfigSpec == ConfigInit /\ [][ConfigNext]_vars

\* ------------------------------------------- generateSummary on its own

\* The rows whose call returned unparseable text in the runs explored
\* (row 0 does not exist: every call returned JSON).
FailedRows == {0, 1}

\* The numbers of per-row results explored: none, one, and the counts on
\* either side of one and of two full batches, up to MaxUsable.
ResultCounts ==
    {0, 1, FullBatchSize, FullBatchSize + 1, 2 * FullBatchSize,
     2 * FullBatchSize + 1, MaxUsable}

\* generateSummary(tempResults, gemini, queue) is entered: the map phase
\* has left one result per row, every row task is done and its promise
\* resolved, and the queue is idle, its last dispatch being the one of the
\* row call that has just returned.  starts logs the dispatches from here
\* on.
SummaryInit ==
    \E r \in RpmValues, n \in ResultCounts, bad \in FailedRows :
        /\ rq = [NewRequestQueue(r) EXCEPT
                    !.lastRequestTime = IF n = 0 THEN 0 ELSE StartTime]
        /\ timers = EmptyBag
        /\ now = StartTime
        /\ status = [i \in 1..n |-> "done"]
        /\ settled = [i \in 1..n |-> [state |-> "resolved", of |-> i]]
        /\ starts = <<>>
        /\ triggers = {}
        /\ run = [NoRun EXCEPT
                    !.pc = "summary",
                    !.nRows = n,
                    !.tempResults =
                        [i \in 1..n |->
                            RowResult(i, IF i = bad THEN "garbage" ELSE "json")]]
        /\ WorkerFresh

\* generateSummary up to its first await, with the source's batch size.
SummaryStart ==
    /\ run.pc = "summary"
    /\ LET g == GenerateSummaryWith(run, Machine, now, FullBatchSize)
           added == Len(g.run.batches)
       IN /\ Enact(g.m, status \o [i \in 1..added |-> "pending"], "add")
          /\ settled' = settled \o [i \in 1..added |-> Unsettled]
          /\ run' = g.run
    /\ UNCHANGED <<now, dataVars>>

SummaryNext ==
    \/ SummaryStart
    \/ CompleteBatch
    \/ BatchesDone
    \/ FinalDone
    \/ TimerFire
    \/ Tick

SummarySpec == SummaryInit /\ [][SummaryNext]_vars

\* ------------------------------------------------------ data worker: text

\* obj[k]: the property, or undefined.
Get(obj, k) == IF k \in DOMAIN obj THEN obj[k] ELSE Undefined

\* obj[k] = v
Put(obj, k, v) ==
    [x \in (DOMAIN obj) \cup {k} |-> IF x = k THEN v ELSE obj[x]]

\* The strings of the files and requests explored that have a capital
\* letter, with what String.prototype.toLowerCase makes of each.
LowerCased ==
    ("Created" :> "created") @@ ("Channel" :> "channel")
        @@ ("Transcript" :> "transcript")
        @@ ("Custom Metrics" :> "custom metrics")
        @@ ("Tier" :> "tier") @@ ("Status" :> "status")
        @@ ("Status_Custom" :> "status_custom")
        @@ ("Tier=gold" :> "tier=gold") @@ ("Status=open" :> "status=open")
        @@ ("VPN" :> "vpn") @@ ("Vpn" :> "vpn")
        @@ ("Finished" :> "finished")
        @@ ("Total Handle Time" :> "total handle time")

ToLowerCase(s) == IF s \in DOMAIN LowerCased THEN LowerCased[s] ELSE s

\* The characters of the strings that are searched or compared.
Spelling ==
    ("" :> <<>>)
        @@ ("n/a" :> <<"n", "/", "a">>)
        @@ ("2023-12-31 23:00" :>
                <<"2", "0", "2", "3", "-", "1", "2", "-", "3", "1", " ",
                  "2", "3", ":", "0", "0">>)
        @@ ("2024-01-01 10:00" :>
                <<"2", "0", "2", "4", "-", "0", "1", "-", "0", "1", " ",
                  "1", "0", ":", "0", "0">>)
        @@ ("2024-01-02 09:30" :>
                <<"2", "0", "2", "4", "-", "0", "1", "-", "0", "2", " ",
                  "0", "9", ":", "3", "0">>)
        @@ ("chat" :> <<"c", "h", "a", "t">>)
        @@ ("voice" :> <<"v", "o", "i", "c", "e">>)
        @@ ("VPN" :> <<"V", "P", "N">>)
        @@ ("Vpn" :> <<"V", "p", "n">>)
        @@ ("vpn" :> <<"v", "p", "n">>)
        @@ ("my vpn" :> <<"m", "y", " ", "v", "p", "n">>)
        @@ ("net" :> <<"n", "e", "t">>)
        @@ ("n" :> <<"n">>)

Chars(s) == Spelling[s]

\* The UTF-16 code units of the characters used.
CharCode ==
    (" " :> 32) @@ ("-" :> 45) @@ ("/" :> 47) @@ ("0" :> 48) @@ ("1" :> 49)
        @@ ("2" :> 50) @@ ("3" :> 51) @@ ("4" :> 52) @@ ("9" :> 57)
        @@ (":" :> 58) @@ ("N" :> 78) @@ ("P" :> 80) @@ ("V" :> 86)
        @@ ("a" :> 97) @@ ("c" :> 99) @@ ("e" :> 101) @@ ("h" :> 104)
        @@ ("i" :> 105) @@ ("m" :> 109) @@ ("n" :> 110) @@ ("o" :> 111)
        @@ ("p" :> 112) @@ ("t" :> 116) @@ ("v" :> 118) @@ ("y" :> 121)

IsDigit(c) == CharCode[c] \in 48..57

\* a < b on two strings: by code units, a proper prefix first.
RECURSIVE CharsLess(_, _)
CharsLess(x, y) ==
    IF y = <<>> THEN FALSE
    ELSE IF x = <<>> THEN TRUE
    ELSE IF CharCode[Head(x)] < CharCode[Head(y)] THEN TRUE
    ELSE IF CharCode[Head(x)] > CharCode[Head(y)] THEN FALSE
    ELSE CharsLess(Tail(x), Tail(y))

StringLess(a, b) == CharsLess(Chars(a), Chars(b))

\* hay.includes(needle)
Includes(hay, needle) ==
    \E i \in 0..(Len(Chars(hay)) - Len(Chars(needle))) :
        SubSeq(Chars(hay), i + 1, i + Len(Chars(needle))) = Chars(needle)

\* parseFloat(s) on strings without sign, point, exponent or leading
\* blank: the number its leading digits spell, whatever follows them, and
\* NaN when it does not start with a digit.
NaN == -1

RECURSIVE DigitsValue(_, _)
DigitsValue(chars, acc) ==
    IF chars = <<>> \/ ~IsDigit(Head(chars)) THEN acc
    ELSE DigitsValue(Tail(chars), acc * 10 + (CharCode[Head(chars)] - 48))

ParseFloat(s) ==
    IF s \notin DOMAIN Spelling THEN NaN
    ELSE IF Chars(s) = <<>> \/ ~IsDigit(Head(Chars(s))) THEN NaN
    ELSE DigitsValue(Chars(s), 0)

\* parseDate(dateString): the minute of the timestamp, counted from
\* 2023-12-31 00:00 UTC, or null when the string is empty or does not
\* match /(\d{4})-(\d{2})-(\d{2})[T ](\d{2}):(\d{2})/.
NullDate == -1

MinutesPerDay == 1440

DateMinutes ==
    ("2023-12-31 23:00" :> 23 * 60)
        @@ ("2024-01-01 10:00" :> MinutesPerDay + 10 * 60)
        @@ ("2024-01-01 10:30" :> MinutesPerDay + 10 * 60 + 30)
        @@ ("2024-01-01 11:00" :> MinutesPerDay + 11 * 60)
        @@ ("2024-01-02 09:30" :> 2 * MinutesPerDay + 9 * 60 + 30)
        @@ ("2024-01-02 10:00" :> 2 * MinutesPerDay + 10 * 60)

ParseDate(dateString) ==
    IF dateString \in DOMAIN DateMinutes THEN DateMinutes[dateString]
    ELSE NullDate

\* parseHandleTime(timeStr): the seconds of "h:m:s", or null.
HandleTimes == ("00:01:30" :> 90) @@ ("01:00:00" :> 3600)

\* The null of parseHandleTime, among numbers of seconds.
NullTime == -1

ParseHandleTime(timeStr) ==
    IF timeStr \in DOMAIN HandleTimes THEN HandleTimes[timeStr] ELSE NullTime

\* ------------------------------------------------- data worker: ingestion

\* The header line of every file explored.
Headers == <<"Created", "Channel", "Transcript", "Custom Metrics">>

\* One record as Papa.parse hands it to step, keyed by header.
Row(created, channel, transcript, metrics) ==
    ("Created" :> created) @@ ("Channel" :> channel)
        @@ ("Transcript" :> transcript) @@ ("Custom Metrics" :> metrics)

\* The records a file is made of.
Records ==
    {Row("2024-01-01 10:00", "chat", "VPN", ""),
     Row("2024-01-02 09:30", "voice", "my vpn", "Tier=gold"),
     Row("2023-12-31 23:00", "chat", "net", "tier=silver"),
     Row("n/a", "", "", "Status=open"),
     Row("", "voice", "VPN", "")}

\* The header line and the records of a file of timed conversations: one
\* that starts when another ends, one that ends before it starts, one that
\* runs over midnight, one without a readable start, one on a later day.
TimedHeaders == <<"Created", "Finished", "Total Handle Time">>

TimedRow(created, finished, handleTime) ==
    ("Created" :> created) @@ ("Finished" :> finished)
        @@ ("Total Handle Time" :> handleTime)

TimedRecords ==
    {TimedRow("2024-01-01 10:00", "2024-01-01 10:30", "00:01:30"),
     TimedRow("2024-01-01 10:30", "2024-01-01 11:00", ""),
     TimedRow("2024-01-02 09:30", "2024-01-01 10:00", ""),
     TimedRow("2023-12-31 23:00", "2024-01-01 10:30", "00:01:30"),
     TimedRow("n/a", "2024-01-01 10:30", ""),
     TimedRow("2024-01-02 09:30", "2024-01-02 10:00", "01:00:00")}

standardHeaders ==
    {"conversation id", "domain", "created", "ended", "finished", "status",
     "channel", "primary agent email", "primary agent handle time",
     "primary agent answer speed", "pickup sla violation", "escalated",
     "escalation queue", "escalation reason", "abandoned", "amelia handled",
     "amelia abandoned", "agent handled", "agent abandoned",
     "escalate abandoned", "total handle time", "executed bpns", "user name",
     "user email", "user external uid", "disconnect wait time",
     "after conversation time", "after conversation violation",
     "resolution codes", "custom metrics", "transcript"}

\* "customMetricsRaw.split('||')" and, per metric, "metric.split('=')":
\* the [key, value] pairs of the cells explored.
SplitMetrics ==
    ("" :> <<>>)
        @@ ("Tier=gold" :> <<[key |-> "Tier", value |-> "gold"]>>)
        @@ ("tier=silver" :> <<[key |-> "tier", value |-> "silver"]>>)
        @@ ("Status=open" :> <<[key |-> "Status", value |-> "open"]>>)

\* trimmedKey + '_Custom'
WithCustomSuffix == ("Status" :> "Status_Custom")

\* Set.prototype.add on a Set held in insertion order.
SetAdd(seq, x) == IF x \in Range(seq) THEN seq ELSE Append(seq, x)

\* [...new Set([...a, ...b])]
RECURSIVE SetOfAll(_, _)
SetOfAll(acc, seq) ==
    IF seq = <<>> THEN acc ELSE SetOfAll(SetAdd(acc, Head(seq)), Tail(seq))

AllKeys(w) == SetOfAll(SetOfAll(<<>>, w.headers), w.customMetricKeys)

\* "for (const key in row) processedRow[key.trim().toLowerCase()] = row[key]"
\* (no two headers explored differ by case only).
ProcessedRow(row) ==
    [k \in {ToLowerCase(h) : h \in DOMAIN row} |->
        row[CHOOSE h \in DOMAIN row : ToLowerCase(h) = k]]

\* A value that "value != null && value !== ''" rejects.
IsEmptyValue(value) == value \in {Undefined, Null, ""}

\* The forEach over the custom metrics of a record.  acc = [row, keys]: the
\* processed row and customMetricKeys.
RECURSIVE WithMetrics(_, _)
WithMetrics(acc, metrics) ==
    IF metrics = <<>> THEN acc
    ELSE LET m == Head(metrics)
             standard == ToLowerCase(m.key) \in standardHeaders
             trimmedKey == IF standard THEN WithCustomSuffix[m.key] ELSE m.key
             lowerTrimmedKey == ToLowerCase(trimmedKey)
         IN  IF m.key = "" THEN WithMetrics(acc, Tail(metrics))
             ELSE WithMetrics(
                    [row  |-> Put(acc.row, lowerTrimmedKey,
                                  IF IsEmptyValue(m.value) THEN Null
                                  ELSE m.value),
                     keys |-> SetAdd(acc.keys, trimmedKey)],
                    Tail(metrics))

\* "if (!filterIndexes[h]) filterIndexes[h] = {};
\*  if (!filterIndexes[h][value]) filterIndexes[h][value] = [];
\*  filterIndexes[h][value].push(rowIndex)"
Pushed(index, header, value, rowIndex) ==
    LET byValue == IF header \in DOMAIN index THEN index[header]
                   ELSE EmptyObject
    IN  Put(index, header,
            Put(byValue, value,
                Append(IF value \in DOMAIN byValue THEN byValue[value]
                       ELSE <<>>, rowIndex)))

\* "for (const header of allKeysForIndexing) { ... }"
RECURSIVE Indexed(_, _, _, _)
Indexed(index, keys, processedRow, rowIndex) ==
    IF keys = <<>> THEN index
    ELSE LET value == Get(processedRow, ToLowerCase(Head(keys)))
         IN  Indexed(IF IsEmptyValue(value) THEN index
                     ELSE Pushed(index, Head(keys), value, rowIndex),
                     Tail(keys), processedRow, rowIndex)

\* The step callback on one record.
Stepped(w, row, rowIndex) ==
    LET processed == ProcessedRow(row)
        raw == Get(processed, "custom metrics")
        pm == WithMetrics([row |-> processed, keys |-> w.customMetricKeys],
                          IF IsEmptyValue(raw) THEN <<>>
                          ELSE SplitMetrics[raw])
        handleTimeSeconds ==
            ParseHandleTime(Get(pm.row, "total handle time"))
        w1 == [w EXCEPT
                 !.rawDataStore = Append(@, pm.row),
                 !.customMetricKeys = pm.keys,
                 !.aggregators.totalRows = @ + 1,
                 !.aggregators.totalContained =
                     IF Get(pm.row, "amelia handled") = "true"
                     THEN @ + 1 ELSE @,
                 !.aggregators.totalHandleTimeSeconds =
                     IF handleTimeSeconds = NullTime THEN @
                     ELSE @ + handleTimeSeconds,
                 !.aggregators.validHandleTimeCount =
                     IF handleTimeSeconds = NullTime THEN @ ELSE @ + 1]
    IN  [w1 EXCEPT !.filterIndexes = Indexed(@, AllKeys(w1), pm.row, rowIndex)]

\* Fields with more distinct values than this are searched, not listed.
OptionLimit == 200

\* The loop of the complete callback over the fields of filterIndexes.
RECURSIVE Catalogued(_, _)
Catalogued(w, keys) ==
    IF keys = <<>> THEN w
    ELSE LET header == Head(keys)
             uniqueValues == IF header \in DOMAIN w.filterIndexes
                             THEN DOMAIN w.filterIndexes[header] ELSE {}
         IN  Catalogued(
                IF header \notin DOMAIN w.filterIndexes THEN w
                ELSE IF ToLowerCase(header) = "transcript"
                        \/ Cardinality(uniqueValues) > OptionLimit
                THEN [w EXCEPT !.highCardinalityFields = Append(@, header)]
                ELSE IF Cardinality(uniqueValues) > 0
                THEN [w EXCEPT !.filterOptions = Put(@, header, uniqueValues)]
                ELSE w,
                Tail(keys))

\* ------------------------------------------------ data worker: concurrency

\* The events calculateSummary and the analysis push for the rows of
\* rowIndexes, in that order: a start and an end for every row whose
\* created and finished both parse.  Times are in minutes.
RECURSIVE EventsOf(_, _)
EventsOf(w, rowIndexes) ==
    IF rowIndexes = <<>> THEN <<>>
    ELSE LET row == w.rawDataStore[Head(rowIndexes) + 1]
             start == ParseDate(Get(row, "created"))
             end == ParseDate(Get(row, "finished"))
         IN  (IF start # NullDate /\ end # NullDate
              THEN <<[time |-> start, type |-> "start"],
                     [time |-> end, type |-> "end"]>>
              ELSE <<>>) \o EventsOf(w, Tail(rowIndexes))

\* "events.sort((a, b) => a.time - b.time)": the sort is stable, so events
\* of the same time stay in the order they were pushed.
RECURSIVE SortedByTime(_, _)
SortedByTime(done, todo) ==
    IF todo = <<>> THEN done
    ELSE LET x == Head(todo)
         IN  SortedByTime(
                SelectSeq(done, LAMBDA y : y.time <= x.time) \o <<x>>
                    \o SelectSeq(done, LAMBDA y : y.time > x.time),
                Tail(todo))

\* The sweep loop: s = [current, max, trace], trace being the counter after
\* every event so far.
RECURSIVE Swept(_, _)
Swept(events, s) ==
    IF events = <<>> THEN s
    ELSE Swept(Tail(events),
               IF Head(events).type = "start"
               THEN [current |-> s.current + 1,
                     max     |-> Max(s.max, s.current + 1),
                     trace   |-> Append(s.trace, s.current + 1)]
               ELSE [current |-> s.current - 1,
                     max     |-> s.max,
                     trace   |-> Append(s.trace, s.current - 1)])

Sweep(events) == Swept(events, [current |-> 0, max |-> 0, trace |-> <<>>])

\* The minutes from start to end of the rows that have both, added up.
RECURSIVE HandleMinutes(_)
HandleMinutes(events) ==
    IF events = <<>> THEN 0
    ELSE (IF Head(events).type = "end" THEN Head(events).time
          ELSE 0 - Head(events).time) + HandleMinutes(Tail(events))

\* The least start time and the greatest end time.
FirstEventTime(events) ==
    CHOOSE t \in {e.time : e \in {x \in Range(events) : x.type = "start"}} :
        \A e \in Range(events) : e.type = "start" => t <= e.time

LastEventTime(events) ==
    CHOOSE t \in {e.time : e \in {x \in Range(events) : x.type = "end"}} :
        \A e \in Range(events) : e.type = "end" => t >= e.time

\* A quotient of two numbers of minutes, kept as the pair.
Ratio(num, den) == [num |-> num, den |-> den]

NoSummary ==
    [peakConcurrency |-> 0, avgConcurrency |-> Ratio(0, 1), timeRange |-> "N/A"]

\* calculateSummary(rowIndexes).  timeRange holds the two instants whose
\* dates the code prints.
CalculateSummary(w, rowIndexes) ==
    LET events == EventsOf(w, rowIndexes)
        totalDurationMinutes == LastEventTime(events) - FirstEventTime(events)
    IN  IF rowIndexes = <<>> \/ events = <<>> THEN NoSummary
        ELSE [peakConcurrency |-> Sweep(SortedByTime(<<>>, events)).max,
              avgConcurrency  |->
                  IF totalDurationMinutes > 0
                  THEN Ratio(HandleMinutes(events), totalDurationMinutes)
                  ELSE Ratio(0, 1),
              timeRange       |-> [first |-> FirstEventTime(events),
                                   last  |-> LastEventTime(events)]]

\* ------------------------------------------- data worker: message handlers

\* The 'parse' message arrives: Papa.parse starts with rowIndex = 0 and
\* beforeFirstChunk reads the header line.  Nothing else is reset.
ParseFile(headers) ==
    /\ ~parsing.on
    /\ parsing.loads < MaxLoads
    /\ parsing' = [on |-> TRUE, rowIndex |-> 0, loads |-> parsing.loads + 1,
                   failed |-> FALSE]
    /\ worker' = [worker EXCEPT !.headers = headers]
    /\ UNCHANGED <<posted, schedulerVars>>

Parse == ParseFile(Headers) /\ UNCHANGED appVars

\* Papa.parse hands the next record of the file to step.
StepOf(records) ==
    /\ parsing.on
    /\ Len(worker.rawDataStore) < MaxRecords
    /\ \E row \in records :
          worker' = Stepped(worker, row, parsing.rowIndex)
    /\ parsing' = [parsing EXCEPT !.rowIndex = @ + 1]
    /\ posted' = [type |-> "parse-progress"]
    /\ UNCHANGED schedulerVars

Step == StepOf(Records) /\ UNCHANGED appVars

\* The file ends: complete builds the filter catalog, visiting the fields
\* of filterIndexes (header fields first), and posts 'parse-success'.
CompleteCallback ==
    /\ parsing.on
    /\ parsing' = [parsing EXCEPT !.on = FALSE]
    /\ worker' = Catalogued(worker, AllKeys(worker))
    /\ posted' = [type                  |-> "parse-success",
                  headers               |-> AllKeys(worker),
                  customMetricKeys      |-> worker.customMetricKeys,
                  filterOptions         |-> worker'.filterOptions,
                  highCardinalityFields |-> worker'.highCardinalityFields,
                  summaryStats          |->
                      CalculateSummary(worker,
                          [i \in 1..Len(worker.rawDataStore) |-> i - 1]),
                  totalRows             |-> worker.aggregators.totalRows,
                  totalContained        |-> worker.aggregators.totalContained]
    /\ UNCHANGED schedulerVars

ParseComplete == CompleteCallback /\ UNCHANGED appVars

\* No analysis is run while the worker is looked at on its own.
SchedulerIdle ==
    /\ rq = NewRequestQueue(10)
    /\ timers = EmptyBag
    /\ now = StartTime
    /\ status = <<>>
    /\ settled = <<>>
    /\ starts = <<>>
    /\ triggers = {}
    /\ run = NoRun

WorkerInit == WorkerFresh /\ SchedulerIdle

\* The worker as it takes one file after another.
IngestNext ==
    \/ Parse
    \/ Step
    \/ ParseComplete

IngestSpec == WorkerInit /\ [][IngestNext]_vars

\* --------------------------------------------------- data worker: queries

\* The first load of a worker.
ParseOnce == parsing.loads = 0 /\ Parse

\* The entries of a filter specification, in the order "for (const key in
\* filters)" visits them.  kind is what the code tests of the value: an
\* object with start and end (under the key dateRange), an array, a string.
DateEntry(start, end) ==
    [key |-> "dateRange", kind |-> "range", start |-> start, end |-> end,
     values |-> <<>>, text |-> ""]

ArrayEntry(key, values) ==
    [key |-> key, kind |-> "array", start |-> "", end |-> "",
     values |-> values, text |-> ""]

TextEntry(key, text) ==
    [key |-> key, kind |-> "string", start |-> "", end |-> "",
     values |-> <<>>, text |-> text]

\* "new Date(start + 'T00:00:00Z')" and "new Date(end + 'T23:59:59Z')", in
\* minutes as parseDate's: the 59 seconds past the last minute of the day
\* change no comparison with a time that has no seconds.
FilterDays == ("2023-12-31" :> 0) @@ ("2024-01-01" :> 1) @@ ("2024-01-02" :> 2)

StartOfDay(day) == FilterDays[day] * MinutesPerDay

EndOfDay(day) == FilterDays[day] * MinutesPerDay + (MinutesPerDay - 1)

\* The row ids from 1 on: row 0 is left out.
AllRowIndexesFromOne(w) == [i \in 1..(w.aggregators.totalRows - 1) |-> i]

\* "new Set(Array.from({ length: totalRows }, (_, i) => i))"
AllRowIndexes(w) == [i \in 1..w.aggregators.totalRows |-> i - 1]

\* "filterIndexes[key]?.[val] || []"
IndexedRows(w, key, val) ==
    IF key \in DOMAIN w.filterIndexes /\ val \in DOMAIN w.filterIndexes[key]
    THEN w.filterIndexes[key][val] ELSE <<>>

\* The date branch on one candidate row.
PassesDateRange(w, index, f) ==
    LET rowDate == ParseDate(Get(w.rawDataStore[index + 1], "created"))
    IN  /\ rowDate # NullDate
        /\ ~(f.start # "" /\ rowDate < StartOfDay(f.start))
        /\ ~(f.end # "" /\ rowDate > EndOfDay(f.end))

\* "String(rawDataStore[index][key.toLowerCase()] ?? '').toLowerCase()"
RowValue(w, index, key) ==
    LET value == Get(w.rawDataStore[index + 1], ToLowerCase(key))
    IN  ToLowerCase(IF value \in {Undefined, Null} THEN "" ELSE value)

\* newMatchingIndexes after the branches of the loop body, for the entry f
\* and the candidates matching.
NewMatchingIndexes(w, f, matching) ==
    IF f.key = "dateRange" THEN
        {index \in Range(matching) : PassesDateRange(w, index, f)}
    ELSE IF f.kind = "array" /\ Len(f.values) > 0 THEN
        UNION {Range(IndexedRows(w, f.key, f.values[k])) :
                  k \in 1..Len(f.values)}
    ELSE IF f.kind = "string" /\ f.text # "" THEN
        {index \in Range(matching) :
            Includes(RowValue(w, index, f.key), ToLowerCase(f.text))}
    ELSE {}

\* A narrowing that keeps the new matches, candidates or not.
NarrowedToNew(matching, new) ==
    SelectSeq([i \in 1..(Len(matching) + Cardinality(new)) |-> i - 1],
              LAMBDA index : index \in new)

\* "new Set([...matchingRowIndexes].filter(i => newMatchingIndexes.has(i)))"
Narrowed(matching, new) == SelectSeq(matching, LAMBDA index : index \in new)

\* The loop of applyFilters over the entries left, with its "break" on an
\* empty candidate set and its "continue" on a date range without bounds.
RECURSIVE Filtered(_, _, _)
Filtered(w, filters, matching) ==
    IF filters = <<>> \/ matching = <<>> THEN matching
    ELSE LET f == Head(filters)
         IN  IF f.key = "dateRange" /\ f.start = "" /\ f.end = ""
             THEN Filtered(w, Tail(filters), matching)
             ELSE Filtered(w, Tail(filters),
                           Narrowed(matching,
                                    NewMatchingIndexes(w, f, matching)))

\* applyFilters(filters): the matching row ids, in ascending order.
ApplyFilters(w, filters) == Filtered(w, filters, AllRowIndexes(w))

\* The request sorts by no column.
NoSort == [key |-> Null, direction |-> "ascending"]

\* "rawDataStore[a][lowerCaseKey] || ''"
SortValue(w, index, key) ==
    LET value == Get(w.rawDataStore[index + 1], ToLowerCase(key))
    IN  IF IsEmptyValue(value) THEN "" ELSE value

\* The comparator of the sort: -1, 0 or 1.
Compare(w, a, b, sortConfig) ==
    LET valA == SortValue(w, a, sortConfig.key)
        valB == SortValue(w, b, sortConfig.key)
        numA == ParseFloat(valA)
        numB == ParseFloat(valB)
        numeric == numA # NaN /\ numB # NaN /\ valA # "" /\ valB # ""
        less == IF numeric THEN numA < numB ELSE StringLess(valA, valB)
        greater == IF numeric THEN numA > numB ELSE StringLess(valB, valA)
    IN  IF less THEN (IF sortConfig.direction = "ascending" THEN -1 ELSE 1)
        ELSE IF greater
        THEN (IF sortConfig.direction = "ascending" THEN 1 ELSE -1)
        ELSE 0

\* Array.prototype.sort, which is stable: each element goes behind those
\* that do not compare greater than it.  (On the strings explored the
\* comparator orders consistently, so this is the one result.)
RECURSIVE InsertionSorted(_, _, _, _)
InsertionSorted(w, done, todo, sortConfig) ==
    IF todo = <<>> THEN done
    ELSE LET x == Head(todo)
         IN  InsertionSorted(
                w,
                SelectSeq(done, LAMBDA y : Compare(w, y, x, sortConfig) <= 0)
                    \o <<x>>
                    \o SelectSeq(done,
                                 LAMBDA y : Compare(w, y, x, sortConfig) > 0),
                Tail(todo), sortConfig)

\* "if (sortConfig && sortConfig.key) sortedIndexes.sort(...)"
SortedIndexes(w, matching, sortConfig) ==
    IF sortConfig.key = Null THEN matching
    ELSE InsertionSorted(w, <<>>, matching, sortConfig)

\* Array.prototype.slice(start, end)
Slice(seq, start, end) ==
    LET from == IF start < 0 THEN Max(Len(seq) + start, 0)
                ELSE Min(start, Len(seq))
        to == IF end < 0 THEN Max(Len(seq) + end, 0) ELSE Min(end, Len(seq))
    IN  SubSeq(seq, from + 1, to)

\* A page that starts one page late.
PageIndexesOneBased(sorted, pagination) ==
    Slice(sorted, pagination.currentPage * pagination.rowsPerPage,
          pagination.currentPage * pagination.rowsPerPage
              + pagination.rowsPerPage)

\* "sortedIndexes.slice((currentPage - 1) * rowsPerPage,
\*                      (currentPage - 1) * rowsPerPage + rowsPerPage)"
PageIndexes(sorted, pagination) ==
    Slice(sorted, (pagination.currentPage - 1) * pagination.rowsPerPage,
          (pagination.currentPage - 1) * pagination.rowsPerPage
              + pagination.rowsPerPage)

\* The handler of 'request-page': the worker filters, sorts, cuts the page
\* and posts 'page-data'.  data holds the ids of the rows whose records are
\* sent, and request the message that is answered.
PageData(filters, sortConfig, pagination) ==
    /\ LET matchingIndexes == ApplyFilters(worker, filters)
           sortedIndexes == SortedIndexes(worker, matchingIndexes, sortConfig)
       IN  posted' =
               [type              |-> "page-data",
                request           |-> [filters |-> filters,
                                       sortConfig |-> sortConfig,
                                       pagination |-> pagination],
                data              |-> PageIndexes(sortedIndexes, pagination),
                totalFilteredRows |-> Len(matchingIndexes),
                filteredSummary   |-> CalculateSummary(worker, matchingIndexes),
                filteredIndexes   |-> matchingIndexes,
                fileTotalRows     |-> worker.aggregators.totalRows]
    /\ UNCHANGED <<worker, parsing, schedulerVars>>

\* The 'request-page' message is handled once the file is loaded.
RequestPage(filters, sortConfig, pagination) ==
    /\ ~parsing.on
    /\ parsing.loads > 0
    /\ PageData(filters, sortConfig, pagination)
    /\ UNCHANGED appVars

\* The filter entries explored: a date range with a start and one without
\* bounds; a selection of two values, one of them in no row, and an empty
\* selection; a needle in upper case and an empty needle.
FilterEntries ==
    {DateEntry("2024-01-01", ""), DateEntry("", ""),
     ArrayEntry("Channel", <<"chat", "email">>), ArrayEntry("Channel", <<>>),
     TextEntry("Transcript", "VPN"), TextEntry("Transcript", "")}

\* Specifications of at most MaxFilterFields entries, no key twice.
FilterSpecs ==
    {f \in UNION {[1..n -> FilterEntries] : n \in 0..MaxFilterFields} :
        \A i, j \in 1..Len(f) : i < j => f[i].key # f[j].key}

\* The page the application asks for first.
FirstPage == [currentPage |-> 1, rowsPerPage |-> MaxRowsPerPage]

\* A worker that loads one file and answers filter requests.
FilterNext ==
    \/ ParseOnce
    \/ Step
    \/ ParseComplete
    \/ \E f \in FilterSpecs : RequestPage(f, NoSort, FirstPage)

FilterSpec == WorkerInit /\ [][FilterNext]_vars

Paginations == [currentPage : 1..MaxPage, rowsPerPage : 1..MaxRowsPerPage]

\* The filters and sorts explored with every page: all rows unsorted, all
\* rows by time, the rows of a text search by channel, downwards.
PageQueries ==
    {[filters |-> <<>>, sortConfig |-> NoSort],
     [filters |-> <<>>,
      sortConfig |-> [key |-> "Created", direction |-> "ascending"]],
     [filters |-> <<TextEntry("Transcript", "VPN")>>,
      sortConfig |-> [key |-> "Channel", direction |-> "descending"]]}

\* A worker that loads one file and answers sorted, paged requests.
PageNext ==
    \/ ParseOnce
    \/ Step
    \/ ParseComplete
    \/ \E q \in PageQueries, p \in Paginations :
          RequestPage(q.filters, q.sortConfig, p)

PageSpec == WorkerInit /\ [][PageNext]_vars

\* --------------------------------------------------- data worker: analysis

\* "start.toISOString().slice(0, 10)"
DateString(minutes) ==
    CHOOSE d \in DOMAIN FilterDays : FilterDays[d] = minutes \div MinutesPerDay

\* "value || 'Unknown'"
OrUnknown(value) == IF IsEmptyValue(value) THEN "Unknown" ELSE value

\* An object used as a table, as the sequence of its [key, value] entries
\* in insertion order: the entry of key, made from init when there is none,
\* gets Update applied to its value.
Upserted(table, key, init, Update(_)) ==
    IF \E i \in 1..Len(table) : table[i].key = key
    THEN [i \in 1..Len(table) |->
             IF table[i].key = key
             THEN [key |-> key, value |-> Update(table[i].value)]
             ELSE table[i]]
    ELSE Append(table, [key |-> key, value |-> Update(init)])

NoAggregation ==
    [dailyAggregation         |-> <<>>,
     handleTimeAggregation    |-> <<>>,
     containmentAggregation   |-> <<>>,
     dailyEvents              |-> <<>>,
     totalContainedInFiltered |-> 0]

\* The body of "matchingIndexes.forEach" for one row.
AggregatedRow(agg, row) ==
    LET start == ParseDate(Get(row, "created"))
        end == ParseDate(Get(row, "finished"))
        dateString == DateString(start)
        handleTime == ParseHandleTime(Get(row, "total handle time"))
        contained == Get(row, "amelia handled") = "true"
    IN  IF start = NullDate \/ end = NullDate THEN agg
        ELSE [dailyAggregation |->
                  Upserted(agg.dailyAggregation,
                           [domain  |-> OrUnknown(Get(row, "domain")),
                            channel |-> OrUnknown(Get(row, "channel")),
                            date    |-> dateString],
                           [domain  |-> Get(row, "domain"),
                            channel |-> Get(row, "channel"),
                            date    |-> dateString,
                            count   |-> 0],
                           LAMBDA v : [v EXCEPT !.count = @ + 1]),
              handleTimeAggregation |->
                  IF handleTime = NullTime THEN agg.handleTimeAggregation
                  ELSE Upserted(agg.handleTimeAggregation, dateString,
                                [total |-> 0, count |-> 0],
                                LAMBDA v : [total |-> v.total + handleTime,
                                            count |-> v.count + 1]),
              containmentAggregation |->
                  Upserted(agg.containmentAggregation, dateString,
                           [contained |-> 0, total |-> 0],
                           LAMBDA v : [contained |-> IF contained
                                                     THEN v.contained + 1
                                                     ELSE v.contained,
                                       total     |-> v.total + 1]),
              dailyEvents |->
                  Upserted(agg.dailyEvents, dateString, <<>>,
                           LAMBDA v : v \o <<[time |-> start, type |-> "start"],
                                             [time |-> end, type |-> "end"]>>),
              totalContainedInFiltered |->
                  IF contained THEN agg.totalContainedInFiltered + 1
                  ELSE agg.totalContainedInFiltered]

RECURSIVE Aggregated(_, _, _)
Aggregated(w, rowIndexes, agg) ==
    IF rowIndexes = <<>> THEN agg
    ELSE Aggregated(w, Tail(rowIndexes),
                    AggregatedRow(agg, w.rawDataStore[Head(rowIndexes) + 1]))

\* The loop over the sorted events of one day, from event i on:
\* s = [current, max, weightedSum].
RECURSIVE DaySwept(_, _, _)
DaySwept(events, i, s) ==
    IF i > Len(events) THEN s
    ELSE LET weightedSum ==
                 IF i > 1
                 THEN s.weightedSum
                          + s.current * (events[i].time - events[i - 1].time)
                 ELSE s.weightedSum
         IN  DaySwept(events, i + 1,
                      IF events[i].type = "start"
                      THEN [current     |-> s.current + 1,
                            max         |-> Max(s.max, s.current + 1),
                            weightedSum |-> weightedSum]
                      ELSE [current     |-> s.current - 1,
                            max         |-> s.max,
                            weightedSum |-> weightedSum])

\* One entry of concurrencyTrendData, before the sort by date.
DayConcurrency(entry) ==
    LET events == SortedByTime(<<>>, entry.value)
        dayDuration == IF Len(events) > 1
                       THEN events[Len(events)].time - events[1].time ELSE 0
        s == IF Len(events) > 1
             THEN DaySwept(events, 1,
                           [current |-> 0, max |-> 0, weightedSum |-> 0])
             ELSE [current |-> 0, max |-> 0, weightedSum |-> 0]
    IN  [date |-> entry.key,
         max  |-> s.max,
         avg  |-> IF dayDuration > 0 THEN Ratio(s.weightedSum, dayDuration)
                  ELSE Ratio(0, 1)]

\* ".sort((a, b) => new Date(a.date).getTime() - new Date(b.date).getTime())"
RECURSIVE SortedByDate(_, _)
SortedByDate(done, todo) ==
    IF todo = <<>> THEN done
    ELSE LET x == Head(todo)
         IN  SortedByDate(
                SelectSeq(done,
                          LAMBDA y : FilterDays[y.date] <= FilterDays[x.date])
                    \o <<x>>
                    \o SelectSeq(done,
                                 LAMBDA y : FilterDays[y.date]
                                                > FilterDays[x.date]),
                Tail(todo))

\* "concurrencyTrendData.forEach(d => { if (d.max > total) total = d.max })"
MaxOf(series) ==
    IF series = <<>> THEN 0
    ELSE CHOOSE m \in {0} \cup {series[i].max : i \in 1..Len(series)} :
             \A i \in 1..Len(series) : m >= series[i].max

\* The data of 'analysis-result' for the rows of matchingIndexes.  Rates
\* and averages are kept as quotients; the code prints the overall rate
\* with one decimal.
Analysis(w, matchingIndexes) ==
    LET agg == Aggregated(w, matchingIndexes, NoAggregation)
        concurrencyTrendData ==
            SortedByDate(<<>>, [i \in 1..Len(agg.dailyEvents) |->
                                   DayConcurrency(agg.dailyEvents[i])])
    IN  [volumeData |->
             [i \in 1..Len(agg.dailyAggregation) |->
                 agg.dailyAggregation[i].value],
         handleTimeData |->
             SortedByDate(<<>>,
                 [i \in 1..Len(agg.handleTimeAggregation) |->
                     LET d == agg.handleTimeAggregation[i]
                     IN  [date       |-> d.key,
                          avgMinutes |-> Ratio(d.value.total,
                                               d.value.count * 60)]]),
         containmentTrendData |->
             SortedByDate(<<>>,
                 [i \in 1..Len(agg.containmentAggregation) |->
                     LET d == agg.containmentAggregation[i]
                     IN  [date |-> d.key,
                          rate |-> IF d.value.total > 0
                                   THEN Ratio(d.value.contained * 100,
                                              d.value.total)
                                   ELSE Ratio(0, 1)]]),
         concurrencyTrendData |-> concurrencyTrendData,
         summary |->
             [filteredPeakConcurrency |-> MaxOf(concurrencyTrendData),
              filteredConversations   |-> Len(matchingIndexes),
              overallContainmentRate  |->
                  IF Len(matchingIndexes) > 0
                  THEN Ratio(agg.totalContainedInFiltered * 100,
                             Len(matchingIndexes))
                  ELSE Ratio(0, 1)]]

\* The handler of 'request-analysis': the worker analyses the rows named in
\* the message, or every stored row, and posts 'analysis-result'.  request
\* is the message that is answered.
AnalysisResult(useFilteredData, filteredIndexes) ==
    /\ LET matchingIndexes ==
               IF useFilteredData THEN filteredIndexes
               ELSE [i \in 1..Len(worker.rawDataStore) |-> i - 1]
       IN  posted' = [type    |-> "analysis-result",
                      request |-> [useFilteredData |-> useFilteredData,
                                   filteredIndexes |-> filteredIndexes],
                      rows    |-> matchingIndexes,
                      data    |-> Analysis(worker, matchingIndexes)]
    /\ UNCHANGED <<worker, parsing, schedulerVars>>

\* The 'request-analysis' message is handled once the file is loaded.
RequestAnalysis(useFilteredData, filteredIndexes) ==
    /\ ~parsing.on
    /\ parsing.loads > 0
    /\ AnalysisResult(useFilteredData, filteredIndexes)
    /\ UNCHANGED appVars

\* The first load of a worker, of a file of timed conversations.
ParseTimed ==
    parsing.loads = 0 /\ ParseFile(TimedHeaders) /\ UNCHANGED appVars

StepTimed == StepOf(TimedRecords) /\ UNCHANGED appVars

\* The filters whose rows are summarised and analysed: none, and the
\* conversations from a day on.
TimedFilters == {<<>>, <<DateEntry("2024-01-01", "")>>}

\* A worker that loads a file of timed conversations and answers requests
\* for pages and analyses.
TimedNext ==
    \/ ParseTimed
    \/ StepTimed
    \/ ParseComplete
    \/ \E f \in TimedFilters : RequestPage(f, NoSort, FirstPage)
    \/ \E u \in BOOLEAN, f \in TimedFilters :
          RequestAnalysis(u, ApplyFilters(worker, f))

TimedSpec == WorkerInit /\ [][TimedNext]_vars

\* ------------------------------------------------------------- application

\* The render gate of App: "if (!file || !summaryStats)" shows only the
\* upload screen; otherwise the layout with the sidebar, the header and
\* the active view is shown.  This one is a gate that is always open.
LayoutShownAlways == TRUE

LayoutShown == app.file /\ app.summaryStats # NoObject

\* The Dashboard is mounted: "activeView === 'dashboard' && (<Dashboard".
DashboardShown == LayoutShown /\ app.activeView = "dashboard"

\* The TranscriptAnalysis component is mounted.
TranscriptShown == LayoutShown /\ app.activeView = "transcript"

\* Messages sent and not yet handled, in both directions.
Pending == Len(messages.toWorker) + Len(messages.toApp)

\* The user acts while fewer than MaxPending messages are under way.
UserCanAct == Pending < MaxPending

\* "worker?.postMessage(message)"
PostMessage(message) ==
    messages' = [messages EXCEPT !.toWorker = Append(@, message)]

\* "{ type: 'request-page', filters, pagination, sortConfig }"
PageRequest(filters, pagination, sortConfig) ==
    [type       |-> "request-page",
     filters    |-> filters,
     pagination |-> pagination,
     sortConfig |-> sortConfig]

\* "{ type: 'request-transcript-data', filteredIndexes }"
TranscriptRequest(filteredIndexes) ==
    [type |-> "request-transcript-data", filteredIndexes |-> filteredIndexes]

\* handleFileUpload, reached from the upload screen, which offers the drop
\* zone and the file input only while isLoading is false.
HandleFileUpload ==
    /\ ~LayoutShown
    /\ ~app.isLoading
    /\ app' = [app EXCEPT !.file = TRUE, !.isLoading = TRUE, !.error = ""]
    /\ PostMessage([type |-> "parse"])
    /\ UNCHANGED <<workerVars, schedulerVars>>

\* handleReset ends in window.location.reload(): the page starts again
\* with a new worker and the initial state, and what was under way is lost.
HandleReset ==
    /\ LayoutShown
    /\ worker' = NewWorker
    /\ parsing' = NoParse
    /\ posted' = NoMessage
    /\ app' = NewApp
    /\ messages' = NoMessages
    /\ UNCHANGED schedulerVars

\* handleFilterChange, called by the filter sidebar and by "Clear".
HandleFilterChange(newFilters) ==
    /\ LayoutShown
    /\ UserCanAct
    /\ app' = [app EXCEPT !.filters = newFilters,
                          !.pagination.currentPage = 1]
    /\ PostMessage(PageRequest(newFilters,
                               [app.pagination EXCEPT !.currentPage = 1],
                               app.sortConfig))
    /\ UNCHANGED <<workerVars, schedulerVars>>

\* "Math.ceil(filteredCount / pagination.rowsPerPage)"
LastPage ==
    (Len(app.filteredIndexes) + app.pagination.rowsPerPage - 1)
        \div app.pagination.rowsPerPage

\* The pages the buttons of the Dashboard lead to: "Previous" is disabled
\* on page 1 and "Next" from the last page on.
PagesOffered ==
    {app.pagination.currentPage - 1 : x \in
         IF app.pagination.currentPage = 1 THEN {} ELSE {1}}
    \cup
    {app.pagination.currentPage + 1 : x \in
         IF app.pagination.currentPage >= LastPage THEN {} ELSE {1}}

\* handlePageChange
HandlePageChange(newPage) ==
    /\ DashboardShown
    /\ UserCanAct
    /\ app' = [app EXCEPT !.pagination.currentPage = newPage]
    /\ PostMessage(PageRequest(app.filters,
                               [app.pagination EXCEPT !.currentPage = newPage],
                               app.sortConfig))
    /\ UNCHANGED <<workerVars, schedulerVars>>

\* handleSortChange, called by the column headers of the Dashboard.
HandleSortChange(key) ==
    /\ DashboardShown
    /\ UserCanAct
    /\ LET direction ==
               IF app.sortConfig.key = key
                  /\ app.sortConfig.direction = "ascending"
               THEN "descending" ELSE "ascending"
           sortConfig == [key |-> key, direction |-> direction]
       IN  /\ app' = [app EXCEPT !.sortConfig = sortConfig]
           /\ PostMessage(PageRequest(app.filters, app.pagination, sortConfig))
    /\ UNCHANGED <<workerVars, schedulerVars>>

\* handleDownloadCsv
HandleDownloadCsv ==
    /\ LayoutShown
    /\ UserCanAct
    /\ PostMessage([type            |-> "request-csv-string",
                    filteredIndexes |-> app.filteredIndexes])
    /\ UNCHANGED <<app, workerVars, schedulerVars>>

\* handleDeeperAnalysis: "hasFilters = Object.keys(filters).length > 0"
HandleDeeperAnalysis ==
    /\ LayoutShown
    /\ UserCanAct
    /\ PostMessage([type            |-> "request-analysis",
                    useFilteredData |-> Len(app.filters) > 0,
                    filteredIndexes |-> app.filteredIndexes])
    /\ UNCHANGED <<app, workerVars, schedulerVars>>

\* "onClick={() => setActiveView('transcript')}": TranscriptAnalysis is
\* mounted and its effect asks the worker for the rows.
OpenTranscript ==
    /\ LayoutShown
    /\ app.activeView # "transcript"
    /\ UserCanAct
    /\ app' = [app EXCEPT !.activeView = "transcript"]
    /\ PostMessage(TranscriptRequest(app.filteredIndexes))
    /\ UNCHANGED <<workerVars, schedulerVars>>

\* "onClose={() => setActiveView('dashboard')}" of the analysis view, shown
\* once there is analysisData, and of the transcript view.
CloseView ==
    /\ LayoutShown
    /\ \/ app.activeView = "analysis" /\ app.analysisData # NoObject
       \/ app.activeView = "transcript"
    /\ app' = [app EXCEPT !.activeView = "dashboard"]
    /\ UNCHANGED <<messages, workerVars, schedulerVars>>

\* The state of App after newWorker.onmessage has handled e.
Received(e) ==
    CASE e.type = "parse-error" ->
             [app EXCEPT !.isLoading = FALSE, !.error = "Failed to parse file"]
      [] e.type = "page-data" ->
             [app EXCEPT
                 !.filteredIndexes = e.filteredIndexes,
                 !.summaryStats =
                     Object([summary        |-> e.filteredSummary,
                             totalRows      |->
                                 IF @ # NoObject THEN @[1].totalRows ELSE 0,
                             totalContained |->
                                 IF @ # NoObject THEN @[1].totalContained
                                 ELSE 0]),
                 !.isLoading = FALSE]
      [] e.type = "analysis-result" ->
             [app EXCEPT !.analysisData = Object(e.data),
                         !.activeView = "analysis"]
      [] OTHER -> app

\* What the application sends while it handles e: the first page after
\* 'parse-success', and the rows of the transcript view again when
\* 'page-data' replaces filteredIndexes under a mounted TranscriptAnalysis.
Replies(e) ==
    CASE e.type = "parse-success" ->
             <<PageRequest(<<>>,
                           [currentPage |-> 1, rowsPerPage |-> RowsPerPage],
                           [key |-> Null, direction |-> "ascending"])>>
      [] e.type = "page-data" /\ TranscriptShown ->
             <<TranscriptRequest(e.filteredIndexes)>>
      [] OTHER -> <<>>

\* newWorker.onmessage takes the next message of the worker.
OnMessage ==
    /\ messages.toApp # <<>>
    /\ LET e == Head(messages.toApp)
       IN  /\ app' = Received(e)
           /\ messages' = [toWorker |-> messages.toWorker \o Replies(e),
                           toApp    |-> Tail(messages.toApp)]
    /\ UNCHANGED <<workerVars, schedulerVars>>

\* The next message for the worker is of this type.
Receives(type) ==
    messages.toWorker # <<>> /\ Head(messages.toWorker).type = type

\* self.onmessage has taken a message and posted its answer.
Replied ==
    messages' = [toWorker |-> Tail(messages.toWorker),
                 toApp    |-> Append(messages.toApp, posted')]

\* The records of the files the application uploads.
AppRecords == {Row("2024-01-01 10:00", "chat", "VPN", "")}

WorkerParse ==
    /\ Receives("parse")
    /\ ParseFile(Headers)
    /\ messages' = [messages EXCEPT !.toWorker = Tail(@)]
    /\ UNCHANGED app

WorkerStep ==
    /\ StepOf(AppRecords)
    /\ messages' = [messages EXCEPT !.toApp = Append(@, posted')]
    /\ UNCHANGED app

WorkerComplete ==
    /\ CompleteCallback
    /\ messages' = [messages EXCEPT !.toApp = Append(@, posted')]
    /\ UNCHANGED app

\* The file cannot be read to its end.  The configuration handed to
\* Papa.parse has no error callback and the worker posts no 'parse-error':
\* neither step nor complete is called again and nothing is posted.
WorkerReadFails ==
    /\ parsing.on
    /\ parsing' = [parsing EXCEPT !.on = FALSE, !.failed = TRUE]
    /\ UNCHANGED <<worker, posted, appVars, schedulerVars>>

WorkerRequestPage ==
    /\ Receives("request-page")
    /\ LET e == Head(messages.toWorker)
       IN  PageData(e.filters, e.sortConfig, e.pagination)
    /\ Replied
    /\ UNCHANGED app

WorkerRequestAnalysis ==
    /\ Receives("request-analysis")
    /\ LET e == Head(messages.toWorker)
       IN  AnalysisResult(e.useFilteredData, e.filteredIndexes)
    /\ Replied
    /\ UNCHANGED app

\* "finalHeaders.forEach(header => { casedRow[header] =
\*      rawRow[header.toLowerCase()]; })"
CasedRow(w, rawRow) ==
    LET finalHeaders == AllKeys(w)
    IN  [header \in {finalHeaders[i] : i \in 1..Len(finalHeaders)} |->
             Get(rawRow, ToLowerCase(header))]

\* "filteredIndexes.map(index => { const rawRow = rawDataStore[index]; ...
\*  return casedRow; })"
CasedRows(w, filteredIndexes) ==
    [i \in 1..Len(filteredIndexes) |->
         CasedRow(w, w.rawDataStore[filteredIndexes[i] + 1])]

\* The handler of 'request-csv-string'; csvString stands for the text
\* Papa.unparse makes of the fields and the data it is given.
WorkerRequestCsv ==
    /\ Receives("request-csv-string")
    /\ LET e == Head(messages.toWorker)
       IN  posted' = [type      |-> "csv-string-data",
                      csvString |->
                          [fields |-> AllKeys(worker),
                           data   |-> CasedRows(worker, e.filteredIndexes)]]
    /\ Replied
    /\ UNCHANGED <<worker, parsing, app, schedulerVars>>

\* The handler of 'request-transcript-data'
WorkerRequestTranscript ==
    /\ Receives("request-transcript-data")
    /\ LET e == Head(messages.toWorker)
       IN  posted' = [type |-> "transcript-data-result",
                      rows |-> CasedRows(worker, e.filteredIndexes)]
    /\ Replied
    /\ UNCHANGED <<worker, parsing, app, schedulerVars>>

\* The filters the user sets in the sidebar: none, as "Clear" does, and a
\* search that no record matches.  The columns the user sorts by.
AppFilters == {<<>>, <<TextEntry("Transcript", "net")>>}

AppSortKeys == {"Created"}

\* The application and its worker, from the loading of the page on.
AppNext ==
    \/ HandleFileUpload
    \/ HandleReset
    \/ \E f \in AppFilters : HandleFilterChange(f)
    \/ \E p \in PagesOffered : HandlePageChange(p)
    \/ \E k \in AppSortKeys : HandleSortChange(k)
    \/ HandleDownloadCsv
    \/ HandleDeeperAnalysis
    \/ OpenTranscript
    \/ CloseView
    \/ OnMessage
    \/ WorkerParse
    \/ WorkerStep
    \/ WorkerComplete
    \/ WorkerReadFails
    \/ WorkerRequestPage
    \/ WorkerRequestAnalysis
    \/ WorkerRequestCsv
    \/ WorkerRequestTranscript

AppSpec == WorkerInit /\ [][AppNext]_vars

\* ------------------------------------------------------- scheduler claims

Tasks == 1..Len(status)

Running == {t \in Tasks : status[t] = "running"}

Started(t) == status[t] \in {"running", "done"}

\* The promise of task t is settled by the wrapper of task t itself.
Delivered(t) ==
    /\ settled[t].state \in {"resolved", "rejected"}
    /\ settled[t].of = t

\* C1: the number of tasks dispatched and not yet completed never exceeds
\* the concurrency cap, under any interleaving of add, dispatch,
\* completion, timer firing and clear.
C1_InFlightWithinCap == Cardinality(Running) <= rq.maxConcurrency

\* C2: the start times of any two consecutive dispatches are at least
\* minDelay = 60000 / rpm apart, whichever of add, a task completion or a
\* timer re-check triggered them.
C2_MinInterval ==
    \A i \in 1..(Len(starts) - 1) :
        (starts[i + 1].at - starts[i].at) * rq.rpm >= MinuteMs

C2_Witness ==
    /\ Len(starts) >= 3
    /\ triggers = {"add", "complete", "timer"}

\* The dispatcher can still be woken: a non-empty queue always has an
\* in-flight task or a pending timer left.
NoStuck == rq.queue # <<>> => (Running # {} \/ timers # EmptyBag)

\* Every task submitted so far has finished and delivered.
AllDelivered == \A t \in Tasks : status[t] = "done" /\ Delivered(t)

\* Every task submitted so far has finished and delivered, or was discarded
\* by clear before it was dispatched.
AllDeliveredOrDropped ==
    \A t \in Tasks :
        \/ status[t] = "done" /\ Delivered(t)
        \/ status[t] = "dropped" /\ settled[t].state = "none"

\* C3 as stated: provided every dispatched task terminates, every submitted
\* task is eventually dispatched and its promise eventually settles.  (A
\* task never leaves "done" and finitely many tasks are submitted, so this
\* is: from some point on every submitted task is done.)
C3_EveryTaskDelivered == <>[]AllDelivered

\* C3, amended: provided every dispatched task terminates, every submitted
\* task that no clear discards is eventually dispatched and its promise
\* eventually settles with the task's own result or error; a non-empty
\* queue never lacks both an in-flight task and a timer re-check.
C3_Liveness == []NoStuck /\ <>[]AllDeliveredOrDropped

C3_Witness ==
    /\ Len(status) >= 3
    /\ {"complete", "timer"} \subseteq triggers
    /\ \A t \in Tasks : status[t] = "done" /\ Delivered(t)
    /\ \E t \in Tasks : settled[t].state = "rejected"

\* C4: a task discarded by clear is never started and its promise never
\* settles; a task already dispatched stays running until its own completion
\* and then delivers its result or error to its submitter.
C4_ClearSparesRunning ==
    [][\A t \in Tasks :
          /\ status[t] = "dropped" =>
                status'[t] = "dropped" /\ settled'[t].state = "none"
          /\ status[t] = "running" => status'[t] \in {"running", "done"}
          /\ status'[t] = "done" =>
                settled'[t].state \in {"resolved", "rejected"}
                /\ settled'[t].of = t]_vars

\* activeCount is negative only after a task that was running when clear
\* zeroed the counter has completed.
C4_Witness ==
    /\ rq.activeCount < 0
    /\ \E t \in Tasks : status[t] = "done" /\ Delivered(t)
    /\ \E t \in Tasks : status[t] = "dropped"

\* C5 as stated: right after clear the queue is empty, the in-flight counter
\* is 0 and the last-dispatch timestamp is back at its initial value.
C5_ClearResetsAll ==
    [][Clear =>
          /\ rq'.queue = <<>>
          /\ rq'.activeCount = 0
          /\ rq'.lastRequestTime = NewRequestQueue(rq.rpm).lastRequestTime]_vars

\* C5, amended: right after clear the queue is empty and the in-flight
\* counter is 0; the last-dispatch timestamp is left as it was.
C5_ClearResetsQueueAndCount ==
    [][Clear =>
          /\ rq'.queue = <<>>
          /\ rq'.activeCount = 0
          /\ rq'.lastRequestTime = rq.lastRequestTime]_vars

\* Tasks are running while activeCount is 0 only after a clear.
C5_Witness ==
    /\ rq.queue = <<>>
    /\ rq.activeCount = 0
    /\ rq.lastRequestTime # 0
    /\ Running # {}
    /\ \E t \in Tasks : status[t] = "dropped"

\* C6: tasks are dispatched in submission order: the dispatch log is
\* increasing in submission order and no task starts while an earlier one is
\* still pending, whatever the completion order of the in-flight tasks.
C6_Fifo ==
    /\ \A i, j \in 1..Len(starts) :
          i < j => starts[i].task < starts[j].task
    /\ \A a, b \in Tasks :
          (a < b /\ Started(b)) => status[a] # "pending"

C6_Witness ==
    /\ Len(starts) >= 3
    /\ \E a, b, c \in Tasks :
          /\ a < b /\ b < c
          /\ status[a] = "running" /\ status[b] = "done" /\ Started(c)
    /\ \E t \in Tasks : status[t] = "pending"

\* ---------------------------------------------------- analysis-run claims

\* The start times of the external calls of the run, in order: every
\* dispatch starts the call of its task, and the final call comes last.
CallTimes ==
    [i \in 1..Len(starts) |-> starts[i].at]
        \o (IF run.finalAt >= 0 THEN <<run.finalAt>> ELSE <<>>)

\* The external calls that have started and not ended.
OpenCalls == Cardinality(Running) + (IF run.pc = "final" THEN 1 ELSE 0)

\* C7: over the whole run, per-row, batch and final calls included, any two
\* consecutive external calls start at least minDelay apart and at most
\* maxConcurrency calls are outstanding at once.
C7_AllCallsRateLimited ==
    /\ \A i \in 1..(Len(CallTimes) - 1) :
          (CallTimes[i + 1] - CallTimes[i]) * rq.rpm >= MinuteMs
    /\ OpenCalls <= rq.maxConcurrency

\* C8: once handleStart is past the map phase (a batch call or the final
\* call has been issued, or the run has ended) every per-row task has
\* finished and left its result.
C8_ReduceAfterMap ==
    (run.pc \notin {"idle", "map"} \/ Len(status) > run.nRows
        \/ run.finalAt >= 0)
    => /\ \A t \in RowTasks : status[t] = "done"
       /\ Len(run.tempResults) = run.nRows

C8_Witness ==
    /\ run.pc = "batches"
    /\ \E t \in BatchTasks : status[t] = "running"
    /\ \E i, j \in 1..Len(run.tempResults) :
          i < j /\ run.tempResults[i].row > run.tempResults[j].row

\* The run took the batched path.
Batched == Len(run.batches) > 0

\* C9: in the batched path the final call is issued only after every batch
\* task has finished; its input is exactly the batches whose call returned
\* parseable text, in batch order; and once every batch task has finished
\* the final call is issued, whether or not a batch failed.
C9_FinalAfterBatches ==
    Batched =>
        /\ run.finalAt >= 0 =>
              /\ \A t \in BatchTasks : status[t] = "done"
              /\ \A i \in 1..Len(run.batches) :
                    [from |-> "batch", id |-> i] \in Range(run.finalInput)
                        <=> run.batchResults[i] = "json"
              /\ \A i, j \in 1..Len(run.finalInput) :
                    i < j => run.finalInput[i].id < run.finalInput[j].id
        /\ run.pc \in {"final", "done"} => run.finalAt >= 0

C9_Witness ==
    /\ Batched
    /\ run.pc = "final"
    /\ \E i, j \in 1..Len(run.batches) :
          /\ run.batchResults[i] = "json"
          /\ run.batchResults[j] = "garbage"
          /\ run.finalInput = <<[from |-> "batch", id |-> i]>>

\* C10: when no batch succeeds, no final call is made and the run ends with
\* a failure report instead of a summary.
C10_NoSummaryFromNoData ==
    (Batched
        /\ \A i \in 1..Len(run.batches) :
              run.batchResults[i] \in {"null", "garbage"})
    => /\ run.finalAt < 0
       /\ run.pc = "done" => run.summary = "error"

\* ---------------------------------------------------------- batching claims

RECURSIVE Flatten(_)
Flatten(seqs) ==
    IF seqs = <<>> THEN <<>> ELSE Head(seqs) \o Flatten(Tail(seqs))

\* The dispatches of a task so far.
DispatchesOf(task) == {i \in 1..Len(starts) : starts[i].task = task}

\* C11: when n usable results are batched with batch size 25, the batches
\* are ceil(n/25) consecutive slices that together are the usable results,
\* each once and in order; every batch but the last has 25 results and the
\* last has 1 to 25; each batch has one task of its own, whose call is made
\* at most once and exactly once by the time the final call is made; and
\* the final call is made once the batches are done and never a second
\* time.
C11_Batches ==
    /\ [](Batched =>
            LET valid == ValidResults(run.tempResults)
                bs == run.batches
            IN  /\ Len(bs) = CeilDiv(Len(valid), FullBatchSize)
                /\ Flatten(bs) = valid
                /\ \A k \in 1..(Len(bs) - 1) : Len(bs[k]) = FullBatchSize
                /\ Len(bs[Len(bs)]) \in 1..FullBatchSize
                /\ Len(status) = run.nRows + Len(bs)
                /\ \A t \in BatchTasks : Cardinality(DispatchesOf(t)) <= 1
                /\ run.pc \in {"final", "done"} =>
                      /\ run.finalAt >= 0
                      /\ \A t \in BatchTasks :
                            Cardinality(DispatchesOf(t)) = 1)
    /\ [][run'.pc = "final" /\ run.pc # "final" => run.finalAt = -1]_vars

C11_Witness ==
    /\ run.pc = "done"
    /\ run.summary = "html"
    /\ Len(run.batches) = 3
    /\ Len(run.batches[1]) = 25
    /\ Len(run.batches[2]) = 25
    /\ Len(run.batches[3]) = 10

\* ------------------------------------------------------- per-row failures

\* The results recorded for a row.
ResultsOf(row) ==
    {i \in 1..Len(run.tempResults) : run.tempResults[i].row = row}

\* C12: a call that fails or returns unparseable text is recorded as the
\* error of its own row and nothing else: no row promise is ever rejected,
\* every result carries either an insight or an error (never both, never
\* neither), a row has at most one result, and once the map phase has
\* ended every target row has been dispatched, has finished and has
\* exactly one result.
C12_RowErrorsStayLocal ==
    /\ \A t \in RowTasks : settled[t].state # "rejected"
    /\ \A i \in 1..Len(run.tempResults) :
          /\ run.tempResults[i].row \in RowTasks
          /\ (run.tempResults[i].insight = "null")
                <=> (run.tempResults[i].error # "null")
    /\ \A t \in RowTasks :
          /\ Cardinality(ResultsOf(t)) <= 1
          /\ status[t] = "done" <=> ResultsOf(t) # {}
    /\ run.pc \notin {"idle", "map"} =>
          \A t \in RowTasks :
              /\ Cardinality(DispatchesOf(t)) = 1
              /\ status[t] = "done"
              /\ Cardinality(ResultsOf(t)) = 1

C12_Witness ==
    /\ run.pc = "final"
    /\ \E i, j \in 1..Len(run.tempResults) :
          /\ i < j
          /\ run.tempResults[i].error = "e.message"
          /\ run.tempResults[j].insight = "parsed"

\* ------------------------------------------------------- invalid settings

\* C13: a run whose scheduler is configured with an invalid rate ends at
\* once in handleStart's failure report: it never waits for row tasks, no
\* task is submitted or dispatched and no result is recorded.
C13_InvalidRpmRejected ==
    rq.rpm <= 0 =>
        /\ run.pc \in {"idle", "done"}
        /\ status = <<>>
        /\ starts = <<>>
        /\ run.tempResults = <<>>
        /\ run.finalAt < 0

\* ---------------------------------------------------------- ingestion claims

\* The bucket of a value of a field ([] when there is none).
BucketOf(header, value) ==
    IF header \in DOMAIN worker.filterIndexes
       /\ value \in DOMAIN worker.filterIndexes[header]
    THEN worker.filterIndexes[header][value] ELSE <<>>

\* The values a field is indexed under.
IndexedValues(header) ==
    IF header \in DOMAIN worker.filterIndexes
    THEN DOMAIN worker.filterIndexes[header] ELSE {}

Occurrences(seq, x) == Cardinality({k \in 1..Len(seq) : seq[k] = x})

\* What the store holds for a field of a row.
StoredValue(rowId, header) ==
    Get(worker.rawDataStore[rowId + 1], ToLowerCase(header))

RowIds == 0..(Len(worker.rawDataStore) - 1)

\* C17: while and after a worker ingests its first file, the row ids are
\* 0..totalRows-1 in ingestion order (the next id is the number of rows
\* stored), every id in the index is one of them, and for every field of
\* the catalog a row is in the bucket of its own value exactly once when
\* that value is non-empty, and in no other bucket of the field.
C17_IndexMatchesStore ==
    parsing.loads <= 1 =>
        /\ worker.aggregators.totalRows = Len(worker.rawDataStore)
        /\ parsing.on => parsing.rowIndex = Len(worker.rawDataStore)
        /\ \A h \in DOMAIN worker.filterIndexes :
              /\ h \in Range(AllKeys(worker))
              /\ \A v \in IndexedValues(h) : Range(BucketOf(h, v)) \subseteq RowIds
        /\ \A h \in Range(AllKeys(worker)), i \in RowIds :
              /\ ~IsEmptyValue(StoredValue(i, h)) =>
                    Occurrences(BucketOf(h, StoredValue(i, h)), i) = 1
              /\ \A v \in IndexedValues(h) \ {StoredValue(i, h)} :
                    Occurrences(BucketOf(h, v), i) = 0

\* C18: once a worker has ingested a second file, its state describes that
\* file only: the store and totalRows count its rows, every index entry
\* names a stored row that holds the value of its bucket, and no field is
\* catalogued twice.
C18_SecondLoadResets ==
    (parsing.loads = 2 /\ ~parsing.on) =>
        /\ Len(worker.rawDataStore) = parsing.rowIndex
        /\ worker.aggregators.totalRows = parsing.rowIndex
        /\ \A h \in DOMAIN worker.filterIndexes :
              \A v \in IndexedValues(h) :
                  \A i \in Range(BucketOf(h, v)) :
                      i \in RowIds /\ StoredValue(i, h) = v
        /\ \A a, b \in 1..Len(worker.highCardinalityFields) :
              a # b => worker.highCardinalityFields[a]
                           # worker.highCardinalityFields[b]

\* ---------------------------------------------------------- filter claims

\* A 'page-data' message is the last one posted.
Answered == posted.type = "page-data"

\* The match set of one entry taken over all rows; a date range without
\* bounds excludes nothing.
FieldMatches(f) ==
    IF f.key = "dateRange" /\ f.start = "" /\ f.end = ""
    THEN Range(AllRowIndexes(worker))
    ELSE NewMatchingIndexes(worker, f, AllRowIndexes(worker))

Reversed(seq) == [i \in 1..Len(seq) |-> seq[Len(seq) + 1 - i]]

\* C14: the empty specification yields every row id of [0, totalRows) and
\* any specification yields row ids of [0, totalRows), none of them twice.
C14_FilteredIsSubset ==
    Answered =>
        /\ posted.request.filters = <<>> =>
              posted.filteredIndexes
                  = [i \in 1..worker.aggregators.totalRows |-> i - 1]
        /\ Range(posted.filteredIndexes)
              \subseteq 0..(worker.aggregators.totalRows - 1)
        /\ \A a, b \in 1..Len(posted.filteredIndexes) :
              a # b => posted.filteredIndexes[a] # posted.filteredIndexes[b]

\* The empty specification is answered for a file of several rows.
C14_Witness ==
    /\ Answered
    /\ posted.request.filters = <<>>
    /\ worker.aggregators.totalRows > 1
    /\ posted.totalFilteredRows = worker.aggregators.totalRows

\* C15: the rows returned are the intersection of the entries' match sets
\* taken over all rows, so the entries in the opposite order return the
\* same rows.
C15_OrderIndependent ==
    Answered =>
        /\ Range(posted.filteredIndexes)
              = {i \in Range(AllRowIndexes(worker)) :
                    \A k \in 1..Len(posted.request.filters) :
                        i \in FieldMatches(posted.request.filters[k])}
        /\ ApplyFilters(worker, Reversed(posted.request.filters))
              = posted.filteredIndexes

\* A scanned entry followed by an indexed one, each matching rows the other
\* does not.
C15_Witness ==
    /\ Answered
    /\ Len(posted.request.filters) = 2
    /\ posted.request.filters[1].kind = "string"
    /\ posted.request.filters[2].kind = "array"
    /\ posted.filteredIndexes # <<>>
    /\ \A k \in 1..2 :
          Range(posted.filteredIndexes) # FieldMatches(posted.request.filters[k])

\* C16: a specification of one free-text entry keeps exactly the rows whose
\* lower-cased field value contains the lower-cased needle, whatever the
\* needle.
C16_TextKeepsContaining ==
    (/\ Answered
     /\ Len(posted.request.filters) = 1
     /\ posted.request.filters[1].kind = "string") =>
        Range(posted.filteredIndexes)
            = {i \in Range(AllRowIndexes(worker)) :
                  Includes(RowValue(worker, i, posted.request.filters[1].key),
                           ToLowerCase(posted.request.filters[1].text))}

\* ------------------------------------------------------------ page claims

\* The sorted, filtered row ids of the request answered.
SortedOf(request) ==
    SortedIndexes(worker, ApplyFilters(worker, request.filters),
                  request.sortConfig)

\* ceil(matchCount / n)
PageCount(matchCount, n) == (matchCount + n - 1) \div n

\* Page k of the request answered, at its page size.
PageOf(request, k) ==
    PageIndexes(SortedOf(request),
                [currentPage |-> k,
                 rowsPerPage |-> request.pagination.rowsPerPage])

\* C19: the pages 1 .. ceil(matchCount/n) of a request, one after the
\* other, are the sorted filtered row ids, each once; the page posted is
\* the one asked for, has at most n rows and is empty beyond the last.
C19_PagesPartition ==
    Answered =>
        LET request == posted.request
            n == request.pagination.rowsPerPage
            pages == PageCount(posted.totalFilteredRows, n)
        IN  /\ Flatten([k \in 1..pages |-> PageOf(request, k)])
                  = SortedOf(request)
            /\ Len(SortedOf(request)) = posted.totalFilteredRows
            /\ Range(SortedOf(request)) = Range(posted.filteredIndexes)
            /\ posted.data = PageOf(request, request.pagination.currentPage)
            /\ Len(posted.data) <= n
            /\ request.pagination.currentPage > pages => posted.data = <<>>

\* The second, shorter page of a sorted result.
C19_Witness ==
    /\ Answered
    /\ posted.request.sortConfig.key # Null
    /\ posted.request.pagination.currentPage > 1
    /\ posted.totalFilteredRows > posted.request.pagination.rowsPerPage
    /\ posted.data # <<>>
    /\ Len(posted.data) < posted.request.pagination.rowsPerPage

\* The other direction of a sort.
Flipped(sortConfig) ==
    [key |-> sortConfig.key,
     direction |-> IF sortConfig.direction = "ascending"
                   THEN "descending" ELSE "ascending"]

\* C20: rows with pairwise distinct values of the sort field, all on one
\* page, come in the reverse of the order the other direction gives.
C20_DescendingReversesAscending ==
    (/\ Answered
     /\ posted.request.sortConfig.key # Null
     /\ posted.request.pagination.currentPage = 1
     /\ posted.request.pagination.rowsPerPage >= posted.totalFilteredRows
     /\ \A a, b \in Range(posted.filteredIndexes) :
           a # b => SortValue(worker, a, posted.request.sortConfig.key)
                       # SortValue(worker, b, posted.request.sortConfig.key)) =>
        posted.data
            = Reversed(SortedIndexes(worker, posted.filteredIndexes,
                                     Flipped(posted.request.sortConfig)))

\* ------------------------------------------------------ scheduler counters

\* C28: a rate below 20 requests a minute gives a cap of 1, and no rate
\* gives a cap above the ceiling.
C28_SerialBelowTwenty ==
    /\ rq.rpm < 20 => rq.maxConcurrency = 1
    /\ rq.maxConcurrency <= ConcurrencyCeiling

\* C29: the in-flight counter is never negative and counts the tasks that
\* have been dispatched and have not completed.
C29_ActiveCountExact ==
    /\ rq.activeCount >= 0
    /\ rq.activeCount = Cardinality(Running)

\* ------------------------------------------------------ concurrency claims

\* A message that carries a summary is the last one posted.
Summarised == posted.type \in {"parse-success", "page-data"}

\* The summary of that message and the rows it is made of.
PostedSummary ==
    IF posted.type = "parse-success" THEN posted.summaryStats
    ELSE posted.filteredSummary

SummaryRows ==
    IF posted.type = "parse-success"
    THEN [i \in 1..Len(worker.rawDataStore) |-> i - 1]
    ELSE posted.filteredIndexes

Analysed == posted.type = "analysis-result"

\* The start and end of a stored row, in minutes.
StartOf(id) == ParseDate(Get(worker.rawDataStore[id + 1], "created"))

EndOf(id) == ParseDate(Get(worker.rawDataStore[id + 1], "finished"))

\* Row b starts at the instant row a ends, both lasting some time.
Touching(a, b) ==
    /\ a # b
    /\ NullDate \notin {StartOf(a), EndOf(a), StartOf(b), EndOf(b)}
    /\ StartOf(a) < EndOf(a)
    /\ EndOf(a) = StartOf(b)
    /\ StartOf(b) < EndOf(b)

\* C21: the peak of a summary is at least its average, and the average is
\* not negative.
C21_PeakAtLeastAverage ==
    Summarised =>
        /\ PostedSummary.avgConcurrency.den > 0
        /\ PostedSummary.avgConcurrency.num >= 0
        /\ PostedSummary.peakConcurrency * PostedSummary.avgConcurrency.den
              >= PostedSummary.avgConcurrency.num

\* C22: two rows of which one starts when the other ends count as
\* concurrent, in the summary and in the analysis of their day.
C22_StartsBeforeEnds ==
    /\ (Summarised /\ \E a, b \in Range(SummaryRows) : Touching(a, b)) =>
          PostedSummary.peakConcurrency >= 2
    /\ Analysed =>
          \A a, b \in Range(posted.rows) :
              (Touching(a, b) /\ DateString(StartOf(a)) = DateString(StartOf(b)))
                  => \E i \in 1..Len(posted.data.concurrencyTrendData) :
                        /\ posted.data.concurrencyTrendData[i].date
                              = DateString(StartOf(a))
                        /\ posted.data.concurrencyTrendData[i].max >= 2

\* C23: the counter of the sweep is never negative, and zero at the end.
C23_CounterNeverNegative ==
    Summarised =>
        LET trace == Sweep(SortedByTime(<<>>, EventsOf(worker, SummaryRows))).trace
        IN  /\ \A i \in 1..Len(trace) : trace[i] >= 0
            /\ trace # <<>> => trace[Len(trace)] = 0

\* The entries of a series come in the order of their dates.
ByDate(series) ==
    \A i, j \in 1..Len(series) :
        i < j => FilterDays[series[i].date] <= FilterDays[series[j].date]

\* C24: every series of an analysis is in the order of its dates.
C24_SeriesByDate ==
    Analysed =>
        /\ ByDate(posted.data.volumeData)
        /\ ByDate(posted.data.handleTimeData)
        /\ ByDate(posted.data.containmentTrendData)
        /\ ByDate(posted.data.concurrencyTrendData)

\* C25: the peak of an analysis is the greatest peak of its days and is at
\* most the peak of the summary of the same rows.
C25_AnalysisPeakWithinSummary ==
    Analysed =>
        /\ \A i \in 1..Len(posted.data.concurrencyTrendData) :
              posted.data.concurrencyTrendData[i].max
                  <= posted.data.summary.filteredPeakConcurrency
        /\ posted.data.summary.filteredPeakConcurrency > 0 =>
              \E i \in 1..Len(posted.data.concurrencyTrendData) :
                  posted.data.concurrencyTrendData[i].max
                      = posted.data.summary.filteredPeakConcurrency
        /\ posted.data.summary.filteredPeakConcurrency
              <= CalculateSummary(worker, posted.rows).peakConcurrency

\* C30: the rows taken in the opposite order give the same peak and average,
\* in the summary and for every day of the analysis.
C30_OrderOfRowsIrrelevant ==
    /\ Summarised =>
          LET other == CalculateSummary(worker, Reversed(SummaryRows))
          IN  /\ other.peakConcurrency = PostedSummary.peakConcurrency
              /\ other.avgConcurrency = PostedSummary.avgConcurrency
    /\ Analysed =>
          Analysis(worker, Reversed(posted.rows)).concurrencyTrendData
              = posted.data.concurrencyTrendData

\* -------------------------------------------------------- application claims

\* The worker has posted 'parse-success' for the file it was given last.
ParseSucceeded == parsing.loads > 0 /\ ~parsing.on /\ ~parsing.failed

\* C26: a file that cannot be read to its end is reported: once the parse
\* has failed and every message has been handled, the application is no
\* longer loading and shows the error.
C26_ReadFailureReported ==
    (parsing.failed /\ messages = NoMessages)
        => (~app.isLoading /\ app.error # "")

QueryTypes ==
    {"request-page", "request-analysis", "request-csv-string",
     "request-transcript-data"}

\* The messages this step hands to worker.postMessage.
Sent ==
    IF Len(messages'.toWorker) > Len(messages.toWorker)
    THEN {messages'.toWorker[Len(messages'.toWorker)]}
    ELSE {}

\* C27: the application sends a query ('request-page', 'request-analysis',
\* 'request-csv-string', 'request-transcript-data') only when the worker
\* has posted 'parse-success' for the file.
C27_QueriesAfterParseSuccess ==
    [][\A message \in Sent : message.type \in QueryTypes => ParseSucceeded]_vars

\* The user's request for an analysis and for an export wait behind one
\* another for the worker.
C27_Witness ==
    /\ Len(messages.toWorker) > 1
    /\ {messages.toWorker[i].type : i \in 1..Len(messages.toWorker)}
           = {"request-analysis", "request-csv-string"}
    /\ Len(app.filters) > 0

====
